---- MODULE Spec2Model ----
(***************************************************************************)
(* A model of tools/schemapi/schemapi.py: the schema-driven object model   *)
(* (SchemaBase), its canonicalisation (to_dict / _todict), validation      *)
(* (validate_jsonschema and the error consolidation), reconstruction       *)
(* (_FromDict.from_dict), copying, the DEBUG_MODE flag and reference       *)
(* resolution (_resolve_references).                                       *)
(*                                                                         *)
(* Python values are tagged records:                                       *)
(*   [t |-> "str", s]  [t |-> "num", n]  [t |-> "undef"]                    *)
(*   [t |-> "list", items]  [t |-> "tuple", items]  [t |-> "dict", kv]      *)
(*   [t |-> "obj", cls, args, kwds]      (a SchemaBase instance)           *)
(* A JSON schema is a function from its keys to their values, so that      *)
(* `"$ref" in schema` is  "$ref" \in DOMAIN schema.                         *)
(***************************************************************************)
EXTENDS Integers, Sequences, FiniteSets, TLC

VARIABLES
    DEBUG_MODE,   \* the module-level flag DEBUG_MODE
    cv_x,         \* conversion calls: the Document Object the caller holds
    cv_op,        \* conversion calls: the operation last called on it
    cv_res,       \* conversion calls: what that call returned or raised
    rs_root,      \* _resolve_references: the root schema handed to the resolver
    rs_schema,    \* _resolve_references: the local variable `schema`
    rs_pc,        \* _resolve_references: "loop", "done" or "RefResolutionError"
    rs_tick,      \* _resolve_references: parity of the number of loop iterations run
    heap,         \* objects: the SchemaBase instances, lists, tuples and dicts allocated
    ob_x,         \* objects: the address of the object x the caller constructed, or 0
    ob_y,         \* objects: the address of the copy y of x, or 0
    ob_copy,      \* objects: the call that made y
    ob_snap,      \* objects: x as a value, as the caller last left it
    ob_op,        \* objects: the operation last called
    ob_res,       \* objects: "ok" or the exception that call raised
    ob_writes,    \* objects: the number of writes made so far
    dbg_stack,    \* debug_mode: the local `original` of each open scope, innermost last
    dbg_exit,     \* debug_mode: the flag around the last scope exit or copy
    er_spec,      \* error reporting: the instance handed to the validator
    er_op,        \* error reporting: the function last applied to its errors
    er_res,       \* error reporting: what that function returned or raised
    ps_b,         \* property setters: the address of a second object of x's class, or 0
    ps_obj,       \* property setters: the attribute `obj` of the descriptor of each property
    ps_held       \* property setters: the property whose setter the caller holds, or "none"

resolveVars == <<rs_root, rs_schema, rs_pc, rs_tick>>
convVars == <<cv_x, cv_op, cv_res>>
objVars == <<heap, ob_x, ob_y, ob_copy, ob_snap, ob_op, ob_res, ob_writes, dbg_stack, dbg_exit>>
errVars == <<er_spec, er_op, er_res>>
setterVars == <<ps_b, ps_obj, ps_held>>
vars == <<DEBUG_MODE, cv_x, cv_op, cv_res, rs_root, rs_schema, rs_pc, rs_tick,
          heap, ob_x, ob_y, ob_copy, ob_snap, ob_op, ob_res, ob_writes, dbg_stack, dbg_exit,
          er_spec, er_op, er_res, ps_b, ps_obj, ps_held>>

\* The variables a step of reference resolution leaves alone.
notResolveVars == <<DEBUG_MODE, convVars, objVars, errVars, setterVars>>

\* The variables a conversion call leaves alone.
notConvVars == <<DEBUG_MODE, resolveVars, objVars, errVars, setterVars>>

\* The value of the variables of a part of the model that is not running.
Idle == "idle"

ResolveIdle == rs_root = Idle /\ rs_schema = Idle /\ rs_pc = Idle /\ rs_tick = 0

ConvIdle == cv_x = Idle /\ cv_op = Idle /\ cv_res = Idle

ErrIdle == er_spec = Idle /\ er_op = Idle /\ er_res = Idle

ObjIdle ==
    /\ heap = <<>> /\ ob_x = 0 /\ ob_y = 0 /\ ob_copy = Idle /\ ob_snap = Idle
    /\ ob_op = Idle /\ ob_res = Idle /\ ob_writes = 0
    /\ dbg_stack = <<>> /\ dbg_exit = Idle
    /\ ps_b = 0 /\ ps_obj = Idle /\ ps_held = Idle

(***************************************************************************)
(* Python values and outcomes of calls.                                    *)
(***************************************************************************)

Str(s) == [t |-> "str", s |-> s]

Num(n) == [t |-> "num", n |-> n]

\* The singleton UndefinedType() instance.
Undefined == [t |-> "undef"]

PyList(items) == [t |-> "list", items |-> items]

PyTuple(items) == [t |-> "tuple", items |-> items]

PyDict(kv) == [t |-> "dict", kv |-> kv]

\* A SchemaBase instance: its class, _args and _kwds.
Obj(cls, args, kwds) == [t |-> "obj", cls |-> cls, args |-> args, kwds |-> kwds]

\* isinstance(v, SchemaBase)
IsSchemaBase(v) == v.t = "obj"

\* A call returns a value, or raises.
Ok(v) == [ok |-> TRUE, val |-> v]

Raise(e) == [ok |-> FALSE, exc |-> e]

\* The order in which the keys of a _kwds or of a dict are iterated: the
\* modelled objects were given their keywords in this order.
FieldOrder == <<"a", "ab", "mark", "shorthand", "type", "value">>

Fields == {FieldOrder[i] : i \in DOMAIN FieldOrder}

\* The keys of mapping kv, in iteration order.
RECURSIVE KeysFrom(_, _)
KeysFrom(kv, i) ==
    IF i > Len(FieldOrder) THEN <<>>
    ELSE (IF FieldOrder[i] \in DOMAIN kv THEN <<FieldOrder[i]>> ELSE <<>>)
         \o KeysFrom(kv, i + 1)

Keys(kv) == KeysFrom(kv, 1)

\* A function with the empty mapping written as <<>>, its one representation.
Mapping(f) == IF DOMAIN f = {} THEN <<>> ELSE f

\* The outcome of evaluating a sequence of calls in order: the first
\* exception raised, else the sequence of the values.
SeqOutcome(rs) ==
    IF \E i \in DOMAIN rs : ~rs[i].ok
    THEN rs[CHOOSE i \in DOMAIN rs : ~rs[i].ok /\ \A j \in 1..(i-1) : rs[j].ok]
    ELSE Ok(Mapping([i \in DOMAIN rs |-> rs[i].val]))

\* The same for the calls made for the entries of a mapping, in key order.
MapOutcome(rs) ==
    LET ks == Keys(rs)
        bad == {i \in DOMAIN ks : ~rs[ks[i]].ok}
    IN IF bad # {}
       THEN rs[ks[CHOOSE i \in bad : \A j \in bad : i <= j]]
       ELSE Ok(Mapping([k \in DOMAIN rs |-> rs[k].val]))

(***************************************************************************)
(* Canonicalisation: _todict and SchemaBase.to_dict(validate=False).       *)
(***************************************************************************)

\* A variant that also drops the keys in `ignore` from the fields of the
\* objects held in kwds, as if `ignore` were handed to their to_dict.
DropIgnoredInChildren(kwds, ignore) ==
    Mapping([k \in (DOMAIN kwds \ (ignore \cup {"shorthand"})) |->
        IF kwds[k].t = "obj"
        THEN [kwds[k] EXCEPT !.kwds = Mapping([j \in (DOMAIN kwds[k].kwds \ ignore) |->
                                                  kwds[k].kwds[j]])]
        ELSE kwds[k]])

\* kwds without the keys in `ignore` and without "shorthand".
DropIgnored(kwds, ignore) ==
    Mapping([k \in (DOMAIN kwds \ (ignore \cup {"shorthand"})) |-> kwds[k]])

\* `if "mark" in kwds and isinstance(kwds["mark"], str)`: the mark shorthand.
ExpandMark(kwds) ==
    Mapping([k \in DOMAIN kwds |->
        IF k = "mark" /\ kwds[k].t = "str"
        THEN PyDict([type |-> kwds[k]])
        ELSE kwds[k]])

RECURSIVE todict(_)
RECURSIVE to_dict_result(_, _)

\* _todict(obj, context): the context is empty (no parsed shorthand).
todict(obj) ==
    CASE obj.t = "obj" -> to_dict_result(obj, {})
      [] obj.t \in {"list", "tuple"} ->
            LET rs == [i \in DOMAIN obj.items |-> todict(obj.items[i])]
                r == SeqOutcome(rs)
            IN IF r.ok THEN Ok(PyList(r.val)) ELSE r
      [] obj.t = "dict" ->
            LET keep == {k \in DOMAIN obj.kv : obj.kv[k] # Undefined}
                rs == [k \in keep |-> todict(obj.kv[k])]
                r == MapOutcome(rs)
            IN IF r.ok THEN Ok(PyDict(r.val)) ELSE r
      [] OTHER -> Ok(obj)

\* The part of SchemaBase.to_dict that computes `result`.
to_dict_result(self, ignore) ==
    IF Len(self.args) > 0 /\ DOMAIN self.kwds = {}
    THEN todict(self.args[1])
    ELSE IF Len(self.args) = 0
    THEN todict(PyDict(ExpandMark(DropIgnored(self.kwds, ignore))))
    ELSE Raise("ValueError")

(***************************************************************************)
(* Schemas and wrapper classes.  Every class has _schema =                 *)
(* {"$ref": "#/definitions/<name>"} and shares one _rootschema, as the     *)
(* generated wrapper classes do.                                           *)
(***************************************************************************)

Ref(name) == ("$ref" :> name)

\* _rootschema: the definitions of the root document.
RootSchema ==
    [ Top      |-> [ additionalProperties |-> FALSE,
                     properties |-> [ a     |-> Ref("Inner"),
                                      mark  |-> Ref("AnyMark"),
                                      value |-> Ref("Union") ],
                     type |-> "object" ],
      Inner    |-> [ properties |-> [ a |-> [type |-> "string"] ],
                     type |-> "object" ],
      ValueDef |-> [ properties |-> [ value |-> [type |-> "number"] ],
                     required |-> <<"value">>,
                     type |-> "object" ],
      AnyMark  |-> [ anyOf |-> << [enum |-> <<"s">>, type |-> "string"],
                                  Ref("ValueDef") >> ],
      Union    |-> [ anyOf |-> << Ref("ValueDef"),
                                  Ref("Inner"),
                                  [type |-> "object"],
                                  [type |-> "string"] >> ] ]

\* The wrapper classes in the breadth-first order of _subclasses(SchemaBase).
\* Alias wraps the same definition as Inner.
WrapperClasses == <<"Top", "Inner", "ValueDef", "AnyMark", "Union", "Alias">>

Classes == {WrapperClasses[i] : i \in DOMAIN WrapperClasses}

\* cls._schema
ClassSchema(cls) == IF cls = "Alias" THEN Ref("Inner") ELSE Ref(cls)

\* _class_is_valid_at_instantiation: True in SchemaBase, set to False by
\* classes that are completed after construction, here Alias.
ClassIsValidAtInstantiation(cls) == cls # "Alias"

\* _resolve_references(schema, root) as a function, for the schemas above,
\* whose reference chains all end.
RECURSIVE resolve_references(_, _)
resolve_references(schema, root) ==
    IF "$ref" \in DOMAIN schema
    THEN resolve_references(root[schema["$ref"]], root)
    ELSE schema

\* A second root document, for the error reports: a closed top-level object
\* whose properties have sibling names sharing a prefix (a, ab), a property
\* that is a string or a closed object (a), a property named after a wrapper
\* class (mark -> Mark) with several enums for one value, and a property
\* whose object requires "value".
ChartRootSchema ==
    [ Chart    |-> [ additionalProperties |-> FALSE,
                     properties |-> [ a     |-> [anyOf |-> << [type |-> "string"],
                                                              Ref("Nested") >>],
                                      ab    |-> [type |-> "string"],
                                      mark  |-> Ref("Mark"),
                                      value |-> Ref("NumberValueDef") ],
                     type |-> "object" ],
      Nested   |-> [ additionalProperties |-> FALSE,
                     properties |-> [ a |-> [type |-> "string"] ],
                     type |-> "object" ],
      Mark     |-> [ additionalProperties |-> FALSE,
                     properties |-> [ type |-> [anyOf |-> << [enum |-> <<"A", "B">>],
                                                             [enum |-> <<"A", "B", "C">>],
                                                             [enum |-> <<"B", "C">>],
                                                             [enum |-> <<"AB">>] >>] ],
                     type |-> "object" ],
      NumberValueDef |->
                   [ additionalProperties |-> FALSE,
                     properties |-> [ value |-> [type |-> "number"] ],
                     required |-> <<"value">>,
                     type |-> "object" ] ]

\* The wrapper classes generated for the definitions of ChartRootSchema.
ChartClasses == {"Chart", "Nested", "Mark", "NumberValueDef"}

\* The schema a wrapper class stands for, references resolved.
ClassDefinition(cls) ==
    IF cls \in ChartClasses THEN ChartRootSchema[cls]
    ELSE resolve_references(ClassSchema(cls), RootSchema)

(***************************************************************************)
(* The jsonschema validator (draft 7), for the keywords used above.        *)
(* An error is [validator, validator_value, path, message, context,        *)
(* parent, instance]; path is the absolute path as a sequence of keys      *)
(* and indices, message stands for the message text.                       *)
(***************************************************************************)

\* The order validator.iter_errors visits the keys of a schema: the order in
\* which the schema document lists them (alphabetical).
KeywordOrder ==
    <<"additionalProperties", "anyOf", "enum", "items", "oneOf",
      "properties", "required", "type">>

\* validator.is_type(instance, type)
IsType(inst, type) ==
    CASE type = "object" -> inst.t = "dict"
      [] type = "array"  -> inst.t = "list"
      [] type = "string" -> inst.t = "str"
      [] type = "number" -> inst.t = "num"
      [] OTHER -> FALSE

\* `instance in enum`
InEnum(inst, enum) == inst.t = "str" /\ \E i \in DOMAIN enum : enum[i] = inst.s

NoParent == [validator |-> "none", at |-> <<>>]

Err(validator, value, path, detail, context, parent, inst) ==
    [ validator |-> validator, validator_value |-> value, path |-> path,
      message |-> [kind |-> validator, inst |-> inst, detail |-> detail],
      context |-> context, parent |-> parent, instance |-> inst ]

\* Concatenation of a sequence of sequences.
RECURSIVE Flatten(_)
Flatten(ss) == IF ss = <<>> THEN <<>> ELSE Head(ss) \o Flatten(Tail(ss))

\* The errors of `context` with their parent set to the error `p` (identified
\* by its keyword and the place in the schema and the instance it is at).
WithParent(context, p) ==
    Mapping([i \in DOMAIN context |-> [context[i] EXCEPT !.parent = p]])

RECURSIVE iter_errors(_, _, _, _, _)
RECURSIVE keyword_errors(_, _, _, _, _, _)

\* validator.iter_errors(instance, schema) at absolute path `path`; `sp` is
\* the place in the schema. A "$ref" hides its sibling keywords.
iter_errors(inst, schema, root, path, sp) ==
    IF "$ref" \in DOMAIN schema
    THEN iter_errors(inst, root[schema["$ref"]], root, path, Append(sp, schema["$ref"]))
    ELSE Flatten([i \in DOMAIN KeywordOrder |->
            IF KeywordOrder[i] \in DOMAIN schema
            THEN keyword_errors(KeywordOrder[i], inst, schema, root, path, sp)
            ELSE <<>>])

keyword_errors(kw, inst, schema, root, path, sp) ==
    CASE kw = "additionalProperties" ->
            IF inst.t = "dict" /\ schema[kw] = FALSE
            THEN LET declared == IF "properties" \in DOMAIN schema
                                 THEN DOMAIN schema["properties"] ELSE {}
                     extras == DOMAIN inst.kv \ declared
                 IN IF extras # {}
                    THEN <<Err(kw, FALSE, path, extras, <<>>, NoParent, inst)>>
                    ELSE <<>>
            ELSE <<>>
      [] kw \in {"anyOf", "oneOf"} ->
            LET alts == schema[kw]
                subs == [i \in DOMAIN alts |->
                            iter_errors(inst, alts[i], root, path, sp \o <<kw, ToString(i)>>)]
                valid == {i \in DOMAIN alts : subs[i] = <<>>}
                me == [validator |-> kw, at |-> <<path, sp>>]
            IN IF kw = "anyOf"
               THEN IF valid # {} THEN <<>>
                    ELSE <<Err(kw, Len(alts), path, "no alternative", WithParent(Flatten(subs), me), NoParent, inst)>>
               ELSE IF Cardinality(valid) = 1 THEN <<>>
                    ELSE IF valid = {}
                    THEN <<Err(kw, Len(alts), path, "no alternative", WithParent(Flatten(subs), me), NoParent, inst)>>
                    ELSE <<Err(kw, Len(alts), path, "several alternatives", <<>>, NoParent, inst)>>
      [] kw = "enum" ->
            IF InEnum(inst, schema[kw]) THEN <<>>
            ELSE <<Err(kw, schema[kw], path, schema[kw], <<>>, NoParent, inst)>>
      [] kw = "items" ->
            IF inst.t = "list"
            THEN Flatten([i \in DOMAIN inst.items |->
                    iter_errors(inst.items[i], schema[kw], root, Append(path, [i |-> i]), Append(sp, kw))])
            ELSE <<>>
      [] kw = "properties" ->
            IF inst.t = "dict"
            THEN LET ks == Keys(schema[kw])
                 IN Flatten([i \in DOMAIN ks |->
                        IF ks[i] \in DOMAIN inst.kv
                        THEN iter_errors(inst.kv[ks[i]], schema[kw][ks[i]], root,
                                         Append(path, [k |-> ks[i]]), sp \o <<kw, ks[i]>>)
                        ELSE <<>>])
            ELSE <<>>
      [] kw = "required" ->
            IF inst.t = "dict"
            THEN Flatten([i \in DOMAIN schema[kw] |->
                    IF schema[kw][i] \in DOMAIN inst.kv THEN <<>>
                    ELSE <<Err(kw, schema[kw], path, schema[kw][i], <<>>, NoParent, inst)>>])
            ELSE <<>>
      [] kw = "type" ->
            IF IsType(inst, schema[kw]) THEN <<>>
            ELSE <<Err(kw, schema[kw], path, schema[kw], <<>>, NoParent, inst)>>
      [] OTHER -> <<>>

\* _get_errors_from_spec(spec, schema, rootschema)
get_errors_from_spec(spec, schema, rootschema) ==
    iter_errors(spec, schema, rootschema, <<>>, <<>>)

(***************************************************************************)
(* Error consolidation: validate_jsonschema and its helpers.  Strings that *)
(* are compared by prefix are sequences of characters.                     *)
(***************************************************************************)

\* The characters of the strings used as keys and enum values.
CharTable ==
    [ a         |-> <<"a">>,
      ab        |-> <<"a", "b">>,
      mark      |-> <<"m", "a", "r", "k">>,
      shorthand |-> <<"s", "h", "o", "r", "t", "h", "a", "n", "d">>,
      type      |-> <<"t", "y", "p", "e">>,
      value     |-> <<"v", "a", "l", "u", "e">>,
      s         |-> <<"s">>,
      A         |-> <<"A">>,
      B         |-> <<"B">>,
      C         |-> <<"C">>,
      AB        |-> <<"A", "B">>,
      kwds      |-> <<"k", "w", "d", "s">>,
      args      |-> <<"a", "r", "g", "s">> ]

Chars(str) == IF str \in DOMAIN CharTable THEN CharTable[str] ELSE <<str>>

\* err.json_path: "$", then ".key" or "[index]" for each element of the path.
json_path(err) ==
    <<"$">> \o Flatten([i \in DOMAIN err.path |->
                IF "k" \in DOMAIN err.path[i]
                THEN <<".">> \o Chars(err.path[i].k)
                ELSE <<"[", ToString(err.path[i].i - 1), "]">>])

\* str.startswith
StartsWith(value, x) ==
    Len(x) <= Len(value) /\ SubSeq(value, 1, Len(x)) = x

\* _get_leaves_of_error_tree
RECURSIVE get_leaves_of_error_tree(_)
get_leaves_of_error_tree(errors) ==
    Flatten([i \in DOMAIN errors |->
        IF errors[i].context # <<>>
        THEN get_leaves_of_error_tree(errors[i].context)
        ELSE <<errors[i]>>])

\* The distinct values of f(e) over the sequence, in first-seen order.
RECURSIVE FirstSeen(_, _, _)
FirstSeen(keys, i, acc) ==
    IF i > Len(keys) THEN acc
    ELSE FirstSeen(keys, i + 1,
            IF \E j \in DOMAIN acc : acc[j] = keys[i] THEN acc ELSE Append(acc, keys[i]))

\* The subsequence of the elements that satisfy Test.
RECURSIVE SelectIdx(_, _, _)
SelectIdx(seq, keep, i) ==
    IF i > Len(seq) THEN <<>>
    ELSE (IF i \in keep THEN <<seq[i]>> ELSE <<>>) \o SelectIdx(seq, keep, i + 1)

\* _group_errors_by_json_path: a dict, here the sequence of its items
\* [path, errors] in insertion order.
group_errors_by_json_path(errors) ==
    LET paths == FirstSeen([i \in DOMAIN errors |-> json_path(errors[i])], 1, <<>>)
    IN [g \in DOMAIN paths |->
          [ path |-> paths[g],
            errors |-> SelectIdx(errors,
                          {i \in DOMAIN errors : json_path(errors[i]) = paths[g]}, 1) ]]

\* The test without `if x != value`: a value starts with itself.
contained_at_start_of_one_of_the_values(x, values) ==
    \E i \in DOMAIN values : StartsWith(values[i], x)

\* _contained_at_start_of_one_of_other_values
contained_at_start_of_one_of_other_values(x, values) ==
    \E i \in DOMAIN values : values[i] # x /\ StartsWith(values[i], x)

\* _subset_to_most_specific_json_paths
subset_to_most_specific_json_paths(groups) ==
    LET keys == [g \in DOMAIN groups |-> groups[g].path]
    IN SelectIdx(groups,
          {g \in DOMAIN groups :
              ~contained_at_start_of_one_of_other_values(groups[g].path, keys)}, 1)

\* _group_errors_by_validator, as the sequence of the dict's items.
group_errors_by_validator(errors) ==
    LET vs == FirstSeen([i \in DOMAIN errors |-> errors[i].validator], 1, <<>>)
    IN [g \in DOMAIN vs |->
          [ validator |-> vs[g],
            errors |-> SelectIdx(errors,
                          {i \in DOMAIN errors : errors[i].validator = vs[g]}, 1) ]]

\* ",".join(err.validator_value)
RECURSIVE JoinComma(_)
JoinComma(values) ==
    IF values = <<>> THEN <<>>
    ELSE IF Len(values) = 1 THEN Chars(values[1])
    ELSE Chars(values[1]) \o <<",">> \o JoinComma(Tail(values))

\* _deduplicate_enum_errors
deduplicate_enum_errors(errors) ==
    IF Len(errors) > 1
    THEN LET value_strings == [i \in DOMAIN errors |-> JoinComma(errors[i].validator_value)]
         IN SelectIdx(errors,
               {i \in DOMAIN errors :
                   ~contained_at_start_of_one_of_other_values(value_strings[i], value_strings)}, 1)
    ELSE errors

\* Sum of the lengths of the names in a set.
RECURSIVE NamesLen(_)
NamesLen(names) ==
    IF names = {} THEN 0
    ELSE LET n == CHOOSE n \in names : TRUE
         IN Len(Chars(n)) + NamesLen(names \ {n})

\* The length of the text "Additional properties are not allowed (" .
AdditionalPropertiesPrefixLen == 39

\* len(err.message) of an additionalProperties error: the prefix, the quoted
\* names separated by ", ", and " was unexpected)" or " were unexpected)".
MessageLen(err) ==
    LET extras == err.message.detail
        n == Cardinality(extras)
    IN AdditionalPropertiesPrefixLen + NamesLen(extras) + 2 * n + 2 * (n - 1)
       + (IF n = 1 THEN 16 ELSE 17)

\* A variant that keeps the first error whatever the lengths of the messages.
deduplicate_additional_properties_errors_first(errors) ==
    IF Len(errors) > 1
    THEN LET parent == errors[1].parent
         IN IF /\ parent # NoParent
               /\ parent.validator = "anyOf"
               /\ \A i \in 2..Len(errors) : errors[i].parent = parent
            THEN <<errors[1]>>
            ELSE errors
    ELSE errors

\* _deduplicate_additional_properties_errors
deduplicate_additional_properties_errors(errors) ==
    IF Len(errors) > 1
    THEN LET parent == errors[1].parent
         IN IF /\ parent # NoParent
               /\ parent.validator = "anyOf"
               /\ \A i \in 2..Len(errors) : errors[i].parent = parent
            THEN <<errors[CHOOSE i \in DOMAIN errors :
                        /\ \A j \in DOMAIN errors : MessageLen(errors[i]) <= MessageLen(errors[j])
                        /\ \A j \in 1..(i-1) : MessageLen(errors[j]) > MessageLen(errors[i])]>>
            ELSE errors
    ELSE errors

\* A variant that keeps every error.
keep_every_message(errors) == errors

\* _deduplicate_by_message: list({e.message: e for e in errors}.values()):
\* one entry per message in first-seen order, holding the last error with it.
deduplicate_by_message(errors) ==
    LET msgs == FirstSeen([i \in DOMAIN errors |-> errors[i].message], 1, <<>>)
    IN [m \in DOMAIN msgs |->
          errors[CHOOSE i \in DOMAIN errors :
                    /\ errors[i].message = msgs[m]
                    /\ \A j \in DOMAIN errors : errors[j].message = msgs[m] => j <= i]]

\* A variant that takes every `required` error for one about "value".
is_required_error(err) == err.validator = "required"

\* _is_required_value_error
is_required_value_error(err) ==
    err.validator = "required" /\ err.validator_value = <<"value">>

\* `[err for err in deduplicated_errors if not _is_required_value_error(err)]`
drop_required_value_errors(deduplicated) ==
    SelectIdx(deduplicated,
        {i \in DOMAIN deduplicated : ~is_required_value_error(deduplicated[i])}, 1)

\* The deduplication function chosen for a validator, then _deduplicate_by_message.
deduplicate_for_validator(validator, errors) ==
    deduplicate_by_message(
        CASE validator = "enum" -> deduplicate_enum_errors(errors)
          [] validator = "additionalProperties" ->
                deduplicate_additional_properties_errors(errors)
          [] OTHER -> errors)

\* The inner loop of _deduplicate_errors over errors_by_validator.items().
deduplicate_by_validator(by_validator) ==
    Flatten([g \in DOMAIN by_validator |->
        deduplicate_for_validator(by_validator[g].validator, by_validator[g].errors)])

\* The body of the loop of _deduplicate_errors for one json path.
deduplicate_element_errors(element_errors) ==
    drop_required_value_errors(
        deduplicate_by_validator(group_errors_by_validator(element_errors)))

\* _deduplicate_errors
deduplicate_errors(groups) ==
    [g \in DOMAIN groups |->
        [path |-> groups[g].path, errors |-> deduplicate_element_errors(groups[g].errors)]]

\* The grouped errors validate_jsonschema attaches to the error it raises.
consolidated_errors(errors) ==
    deduplicate_errors(
        subset_to_most_specific_json_paths(
            group_errors_by_json_path(
                get_leaves_of_error_tree(errors))))

\* validate_jsonschema(spec, schema, rootschema): returns None, or raises the
\* first error of the first group with all groups attached as _all_errors;
\* `list(grouped_errors.values())[0][0]` raises IndexError on an empty group.
raise_main_error(grouped_errors) ==
    IF grouped_errors = <<>> \/ grouped_errors[1].errors = <<>>
    THEN Raise("IndexError")
    ELSE [ ok |-> FALSE, exc |-> "ValidationError",
           main_error |-> grouped_errors[1].errors[1],
           all_errors |-> grouped_errors ]

validate_errors(errors) ==
    IF errors # <<>> THEN raise_main_error(consolidated_errors(errors)) ELSE Ok("None")

validate_jsonschema(spec, schema, rootschema) ==
    validate_errors(get_errors_from_spec(spec, schema, rootschema))

(***************************************************************************)
(* SchemaValidationError, SchemaBase.to_dict / validate / __init__.        *)
(***************************************************************************)

\* `list(self._errors.values())[:3]`: the number of groups rendered.
MaxErrorsShown == 3

\* inspect.signature(altair_cls).parameters.keys(): a generated class takes
\* the properties of its schema as named parameters and **kwds; a class whose
\* schema declares no properties keeps SchemaBase.__init__(self, *args, **kwds).
signature(cls) ==
    LET schema == ClassDefinition(cls)
    IN IF "properties" \in DOMAIN schema
       THEN Keys(schema["properties"]) \o <<"kwds">>
       ELSE <<"args", "kwds">>

\* prop_name[0].upper() + prop_name[1:]
Capitalized ==
    [ a |-> "A", ab |-> "Ab", mark |-> "Mark", shorthand |-> "Shorthand",
      type |-> "Type", value |-> "Value" ]

\* getattr(vegalite, potential_class_name, None): the wrapper classes.
vegalite(name) == IF name \in Classes \cup ChartClasses THEN name ELSE "None"

\* The class of self.obj whatever the path of the error.
class_of_object(obj_cls, path, i) == obj_cls

\* SchemaValidationError._get_altair_class_for_error: the class named by the
\* last key of the error's path that names one, else the class of self.obj.
RECURSIVE get_altair_class_for_error(_, _, _)
get_altair_class_for_error(obj_cls, path, i) ==
    IF i = 0 THEN obj_cls
    ELSE IF "k" \in DOMAIN path[i] /\ vegalite(Capitalized[path[i].k]) # "None"
    THEN vegalite(Capitalized[path[i].k])
    ELSE get_altair_class_for_error(obj_cls, path, i - 1)

\* int(np.ceil(n ** 0.5))
CeilSqrt(n) == CHOOSE k \in 0..n : k * k >= n /\ \A j \in 0..(k - 1) : j * j < n

\* max(len(name) for name in names)
MaxNameLen(names) ==
    LET lens == {Len(Chars(names[i])) : i \in DOMAIN names}
    IN CHOOSE m \in lens : \A l \in lens : l <= m

\* The widest a table of parameter names may get.
MaxColumnWidth == 80

\* The blanks after the widest name of a column.
ColumnPad == 3

\* split_into_equal_parts(n, p)
split_into_equal_parts(n, p) ==
    [i \in 1..p |-> IF i <= n % p THEN n \div p + 1 ELSE n \div p]

\* The index before the first name of column c.
RECURSIVE ColumnStart(_, _)
ColumnStart(heights, c) ==
    IF c = 1 THEN 0 ELSE ColumnStart(heights, c - 1) + heights[c - 1]

\* The rows of the table of the names: the names fill the columns one after
\* the other, each cell as wide as the widest name of its column and the pad.
params_table(param_names) ==
    LET n == Len(param_names)
        columns == IF MaxColumnWidth \div MaxNameLen(param_names) < CeilSqrt(n)
                   THEN MaxColumnWidth \div MaxNameLen(param_names) ELSE CeilSqrt(n)
    IN IF columns = 0 THEN Raise("ZeroDivisionError")
       ELSE LET heights == split_into_equal_parts(n, columns)
                column(c) == SubSeq(param_names, ColumnStart(heights, c) + 1,
                                    ColumnStart(heights, c) + heights[c])
            IN Ok([r \in 1..heights[1] |->
                     [c \in 1..columns |->
                        [ name  |-> IF r <= heights[c] THEN column(c)[r] ELSE "",
                          width |-> MaxNameLen(column(c)) + ColumnPad ]]])

\* SchemaValidationError._format_params_as_table: zip(*[]) of no name at all
\* cannot be unpacked into the two tuples.
format_params_as_table(param_dict_keys) ==
    LET param_names == SelectIdx(param_dict_keys,
                          {i \in DOMAIN param_dict_keys :
                              param_dict_keys[i] \notin {"kwds", "self"}}, 1)
    IN IF param_names = <<>> THEN Raise("ValueError") ELSE params_table(param_names)

\* error.message.split("('")[-1].split("'")[0]: the first of the names the
\* message of an additionalProperties error quotes.
parameter_name(error) == Keys([k \in error.message.detail |-> TRUE])[1]

\* SchemaValidationError._get_additional_properties_error_message
additional_properties_message(altair_cls, error, table) ==
    IF table.ok
    THEN Ok([ kind |-> "no parameter named", cls |-> altair_cls,
              parameter_name |-> parameter_name(error), table |-> table.val ])
    ELSE table

get_additional_properties_error_message(obj_cls, error) ==
    additional_properties_message(
        get_altair_class_for_error(obj_cls, error.path, Len(error.path)),
        error,
        format_params_as_table(
            signature(get_altair_class_for_error(obj_cls, error.path, Len(error.path)))))

\* The errors of the group reported by the validator `validator`.
ErrorsOf(errors, validator) ==
    SelectIdx(errors, {i \in DOMAIN errors : errors[i].validator = validator}, 1)

\* SchemaValidationError._get_default_error_message: the summary line, a
\* bullet point per enum error and one for the type errors, then the
\* messages of the errors of the other validators.
get_default_error_message(errors) ==
    LET enums == ErrorsOf(errors, "enum")
        types == ErrorsOf(errors, "type")
        others == SelectIdx(errors,
                     {i \in DOMAIN errors : errors[i].validator \notin {"enum", "type"}}, 1)
    IN Ok([ kind |-> "invalid value",
            instance |-> errors[1].instance,
            for |-> IF errors[1].path = <<>> THEN <<>>
                    ELSE <<errors[1].path[Len(errors[1].path)]>>,
            bullet_points |->
                [i \in DOMAIN enums |-> [one_of |-> enums[i].validator_value]]
                \o (IF types = <<>> THEN <<>>
                    ELSE << [of_type |-> [i \in DOMAIN types |-> types[i].validator_value]] >>),
            messages |-> [i \in DOMAIN others |-> others[i].message] ])

\* SchemaValidationError._get_message_for_errors_group: errors[0] of an
\* empty group raises IndexError.
get_message_for_errors_group(obj_cls, errors) ==
    IF errors = <<>> THEN Raise("IndexError")
    ELSE IF errors[1].validator = "additionalProperties"
    THEN get_additional_properties_error_message(obj_cls, errors[1])
    ELSE get_default_error_message(errors)

\* The message put together from the messages of the groups shown: numbered
\* and introduced when there are several.
joined_message(error_messages) ==
    IF \E i \in DOMAIN error_messages : ~error_messages[i].ok
    THEN error_messages[CHOOSE i \in DOMAIN error_messages :
            /\ ~error_messages[i].ok
            /\ \A j \in 1..(i - 1) : error_messages[j].ok]
    ELSE Ok([ multiple_errors_were_found |-> Len(error_messages) > 1,
              sections |-> [i \in DOMAIN error_messages |->
                  [ error_id |-> IF Len(error_messages) > 1 THEN i ELSE 0,
                    text |-> error_messages[i].val ]] ])

\* The message with a section for every group, not for the first three only.
get_message_of_every_group(obj_cls, groups) ==
    joined_message([g \in DOMAIN groups |->
                       get_message_for_errors_group(obj_cls, groups[g].errors)])

\* SchemaValidationError._get_message: one section per group among the
\* first three.
get_message(obj_cls, groups) ==
    LET shown == SubSeq(groups, 1, IF Len(groups) < MaxErrorsShown
                                   THEN Len(groups) ELSE MaxErrorsShown)
    IN joined_message([g \in DOMAIN shown |->
                          get_message_for_errors_group(obj_cls, shown[g].errors)])

\* SchemaValidationError(obj, err): what `raise SchemaValidationError(...)`
\* raises; building the message can itself fail.
schema_validation_error(obj, err, m) ==
    IF m.ok
    THEN [ ok |-> FALSE, exc |-> "SchemaValidationError", obj |-> obj,
           message |-> m.val, errors |-> err.all_errors ]
    ELSE m

SchemaValidationError(obj, err) ==
    schema_validation_error(obj, err, get_message(obj.cls, err.all_errors))

\* SchemaBase.validate(instance, schema=None), schema being None.
validate(cls, instance) ==
    validate_jsonschema(instance, ClassSchema(cls), RootSchema)

\* The `try: self.validate(result) except jsonschema.ValidationError` of
\* to_dict, v being the outcome of self.validate(result).
to_dict_validated(self, result, v) ==
    IF v.ok THEN result
    ELSE IF v.exc = "ValidationError" THEN SchemaValidationError(self, v)
    ELSE v

\* to_dict from `if validate:` on, result being what was computed before.
to_dict_checked(self, validate_arg, result) ==
    IF ~result.ok THEN result
    ELSE IF validate_arg
    THEN to_dict_validated(self, result, validate(self.cls, result.val))
    ELSE result

\* SchemaBase.to_dict(validate, ignore)
to_dict(self, validate_arg, ignore) ==
    to_dict_checked(self, validate_arg, to_dict_result(self, ignore))

\* Nested objects are canonicalised with validate=True.
ValidateNested == TRUE

\* The `validate` argument of `obj.to_dict(validate=False, context=context)`
\* in _todict.
NestedValidate == FALSE

RECURSIVE todict_validations(_)
RECURSIVE to_dict_validations(_, _)

\* The instances the validator is run on, in order, while _todict(obj)
\* canonicalises obj.
todict_validations(obj) ==
    CASE obj.t = "obj" -> to_dict_validations(obj, NestedValidate)
      [] obj.t \in {"list", "tuple"} ->
            Flatten([i \in DOMAIN obj.items |-> todict_validations(obj.items[i])])
      [] obj.t = "dict" ->
            LET ks == Keys([k \in {k \in DOMAIN obj.kv : obj.kv[k] # Undefined} |-> TRUE])
            IN Flatten([i \in DOMAIN ks |-> todict_validations(obj.kv[ks[i]])])
      [] OTHER -> <<>>

\* The same while self.to_dict(validate=validate_arg) runs: those of the
\* canonicalisation of the value or the fields, then `self.validate(result)`.
to_dict_validations(self, validate_arg) ==
    (IF Len(self.args) > 0 /\ DOMAIN self.kwds = {}
     THEN todict_validations(self.args[1])
     ELSE IF Len(self.args) = 0
     THEN todict_validations(PyDict(ExpandMark(DropIgnored(self.kwds, {}))))
     ELSE <<>>)
    \o (IF validate_arg /\ to_dict_result(self, {}).ok
        THEN <<[cls |-> self.cls, instance |-> to_dict_result(self, {}).val]>>
        ELSE <<>>)

\* `self.to_dict(validate=True)` at the end of __init__, r being its outcome.
init_validated(self, r) == IF r.ok THEN Ok(self) ELSE r

\* SchemaBase.__init__(*args, **kwds) under the given value of DEBUG_MODE:
\* the new object, or the exception construction raises.
init(cls, args, kwds, debug) ==
    IF DOMAIN kwds # {} /\ Len(args) # 0 THEN Raise("AssertionError")
    ELSE IF DOMAIN kwds = {} /\ Len(args) \notin {0, 1} THEN Raise("AssertionError")
    ELSE IF debug /\ ClassIsValidAtInstantiation(cls)
    THEN init_validated(Obj(cls, args, kwds), to_dict(Obj(cls, args, kwds), TRUE, {}))
    ELSE Ok(Obj(cls, args, kwds))

\* `self._kwds.get(attr)`: None, not the default, for a field that is not there.
get_or_none(c, attr) == IF attr \in DOMAIN c.kwds THEN c.kwds[attr] ELSE [t |-> "none"]

\* SchemaBase._get(attr)
get(c, attr) == IF attr \in DOMAIN c.kwds THEN c.kwds[attr] ELSE Undefined

\* SchemaBase.__getattr__(attr) for a name the normal lookup does not find:
\* the field, or the AttributeError of object.__getattribute__.
getattr(self, attr) ==
    IF attr \in DOMAIN self.kwds THEN Ok(self.kwds[attr]) ELSE Raise("AttributeError")

\* SchemaBase.__getitem__(item): `self._kwds[item]`
getitem(self, item) ==
    IF item \in DOMAIN self.kwds THEN Ok(self.kwds[item]) ELSE Raise("KeyError")

(***************************************************************************)
(* _FromDict: the class registry and from_dict.                            *)
(***************************************************************************)

\* _FromDict._hash_exclude_keys
HashExcludeKeys == {"definitions", "title", "description", "$schema", "id"}

\* _FromDict.hash_schema: the schema without the excluded top-level keys
\* (equal normalised schemas have equal hashes; collisions are not modelled).
hash_schema(schema) == [k \in (DOMAIN schema \ HashExcludeKeys) |-> schema[k]]

\* The bucket with its classes in the reverse of the class_list order.
class_dict_reversed(h) ==
    SelectIdx([i \in DOMAIN WrapperClasses |-> WrapperClasses[Len(WrapperClasses) + 1 - i]],
        {i \in DOMAIN WrapperClasses :
            hash_schema(ClassSchema(WrapperClasses[Len(WrapperClasses) + 1 - i])) = h}, 1)

\* self.class_dict[h]: the classes whose schema hashes to h, in class_list order.
class_dict(h) ==
    SelectIdx(WrapperClasses,
        {i \in DOMAIN WrapperClasses : hash_schema(ClassSchema(WrapperClasses[i])) = h}, 1)

\* _passthrough, the default default_class
Passthrough == "_passthrough"

\* cls(*args, **kwds) for cls a wrapper class or _passthrough.
construct(cls, args, kwds, debug) ==
    IF cls = Passthrough
    THEN Ok(IF args # <<>> THEN args[1] ELSE PyDict(kwds))
    ELSE init(cls, args, kwds, debug)

\* The first index from i on whose alternative the value validates against,
\* as the loop over `schemas` finds it: 0 when there is none, and the
\* exception when validating an alternative raises something other than
\* jsonschema.ValidationError.
RECURSIVE first_match(_, _, _, _)
RECURSIVE first_match_step(_, _, _, _, _)
first_match(dct, schemas, rootschema, i) ==
    IF i > Len(schemas) THEN Ok(0)
    ELSE first_match_step(dct, schemas, rootschema, i,
                          validate_jsonschema(dct, schemas[i], rootschema))

\* The try/except/else of the loop body, v being the outcome of the validation.
first_match_step(dct, schemas, rootschema, i, v) ==
    IF v.ok THEN Ok(i)
    ELSE IF v.exc = "ValidationError"
    THEN first_match(dct, schemas, rootschema, i + 1)
    ELSE v

RECURSIVE from_dict_schema(_, _, _, _, _)

\* schema.get("anyOf", []) + schema.get("oneOf", [])
union_schemas(schema) ==
    (IF "anyOf" \in DOMAIN schema THEN schema["anyOf"] ELSE <<>>)
    \o (IF "oneOf" \in DOMAIN schema THEN schema["oneOf"] ELSE <<>>)

\* schema.get(key, {})
SchemaGet(schema, key) == IF key \in DOMAIN schema THEN schema[key] ELSE <<>>

\* The values handed to the constructor: `parts` is the outcome of
\* reconstructing the fields or the items; the constructor is called with
\* them (as keywords, or as one positional list) unless that raised.
construct_from(cls, parts, positional, debug) ==
    IF ~parts.ok THEN parts
    ELSE IF positional THEN construct(cls, <<PyList(parts.val)>>, <<>>, debug)
    ELSE construct(cls, <<>>, parts.val, debug)

\* A variant of the reconstruction that keeps only the entries the schema
\* declares under "properties", where the code passes the others through.
from_dict_value_declared_only(dct, cls, schema, rootschema, debug) ==
    IF dct.t = "dict"
    THEN construct_from(cls,
            MapOutcome(Mapping([key \in DOMAIN dct.kv \cap DOMAIN SchemaGet(schema, "properties") |->
                from_dict_schema(dct.kv[key], schema["properties"][key],
                                 rootschema, Passthrough, debug)])),
            FALSE, debug)
    ELSE IF dct.t = "list"
    THEN construct_from(cls,
            SeqOutcome([i \in DOMAIN dct.items |->
                from_dict_schema(dct.items[i], SchemaGet(schema, "items"),
                                 rootschema, Passthrough, debug)]),
            TRUE, debug)
    ELSE construct(cls, <<dct>>, <<>>, debug)

\* _FromDict.from_dict from `if isinstance(dct, dict)` on.
from_dict_value(dct, cls, schema, rootschema, debug) ==
    IF dct.t = "dict"
    THEN construct_from(cls,
            MapOutcome([key \in DOMAIN dct.kv |->
                IF key \in DOMAIN SchemaGet(schema, "properties")
                THEN from_dict_schema(dct.kv[key], schema["properties"][key],
                                      rootschema, Passthrough, debug)
                ELSE Ok(dct.kv[key])]),
            FALSE, debug)
    ELSE IF dct.t = "list"
    THEN construct_from(cls,
            SeqOutcome([i \in DOMAIN dct.items |->
                from_dict_schema(dct.items[i], SchemaGet(schema, "items"),
                                 rootschema, Passthrough, debug)]),
            TRUE, debug)
    ELSE construct(cls, <<dct>>, <<>>, debug)

\* The loop over the alternatives, m being what first_match found.
from_dict_union(dct, cls, schema, rootschema, debug, m) ==
    IF ~m.ok THEN m
    ELSE IF m.val # 0
    THEN from_dict_schema(dct, union_schemas(schema)[m.val], rootschema, cls, debug)
    ELSE from_dict_value(dct, cls, schema, rootschema, debug)

\* _FromDict.from_dict from `schema = _resolve_references(schema, rootschema)` on.
from_dict_resolved(dct, cls, schema, rootschema, debug) ==
    from_dict_union(dct, cls, schema, rootschema, debug,
                    first_match(dct, union_schemas(schema), rootschema, 1))

\* _FromDict.from_dict(dct, schema=schema, rootschema=rootschema,
\* default_class=default_class)
from_dict_schema(dct, schema, rootschema, default_class, debug) ==
    IF IsSchemaBase(dct) THEN Ok(dct)
    ELSE LET matches == class_dict(hash_schema(schema))
             cls == IF matches # <<>> THEN matches[1] ELSE default_class
         IN from_dict_resolved(dct, cls, resolve_references(schema, rootschema),
                               rootschema, debug)

\* A variant of from_dict(dct, cls) without the isinstance(dct, SchemaBase)
\* shortcut: it reconstructs whatever it is given.
from_dict_cls_reconstructing(dct, cls, debug) ==
    from_dict_resolved(dct, cls, resolve_references(ClassSchema(cls), RootSchema),
                       RootSchema, debug)

\* _FromDict.from_dict(dct, cls): schema and rootschema are the class's.
from_dict_cls(dct, cls, debug) ==
    IF IsSchemaBase(dct) THEN Ok(dct)
    ELSE from_dict_resolved(dct, cls, resolve_references(ClassSchema(cls), RootSchema),
                            RootSchema, debug)

\* SchemaBase.from_dict(dct, validate): the public entry point.
from_dict_validated(cls, dct, debug, v) ==
    IF ~v.ok THEN v ELSE from_dict_cls(dct, cls, debug)

from_dict(cls, dct, validate_arg, debug) ==
    from_dict_validated(cls, dct, debug,
        IF validate_arg THEN validate(cls, dct) ELSE Ok("None"))

(***************************************************************************)
(* Reference resolution.                                                   *)
(***************************************************************************)

\* The names a "$ref" can point at: "#/definitions/<name>".
DefNames == {"A", "B", "C"}

\* A name no root schema defines (a dangling reference).
MissingName == "Missing"

\* Fragments without a top-level "$ref".
PlainFragments == {[type |-> "string"], [type |-> "object"]}

\* Fragments that are a reference.
RefFragments == {("$ref" :> n) : n \in DefNames \cup {MissingName}}

Fragments == PlainFragments \cup RefFragments

\* Root schemas: the "definitions" of the document.
RootSchemas == [DefNames -> Fragments]

\* jsonschema.RefResolver.resolving(ref): the fragment the pointer names in the
\* root document.
Resolvable(root, ref) == ref \in DOMAIN root

Resolved(root, ref) == root[ref]

\* _resolve_references: the state on entry, `schema` being the argument.
ResolveInit ==
    /\ rs_root \in RootSchemas
    /\ rs_schema \in Fragments
    /\ rs_pc = "loop"
    /\ rs_tick = 0

\* One iteration of `while "$ref" in schema`: the reference resolves and the
\* resolved fragment becomes `schema`.
ResolveFollow ==
    /\ rs_pc = "loop"
    /\ "$ref" \in DOMAIN rs_schema
    /\ Resolvable(rs_root, rs_schema["$ref"])
    /\ rs_schema' = Resolved(rs_root, rs_schema["$ref"])
    /\ rs_tick' = 1 - rs_tick
    /\ UNCHANGED <<rs_root, rs_pc, notResolveVars>>

\* resolver.resolving raises on a pointer the root does not define.
ResolveFail ==
    /\ rs_pc = "loop"
    /\ "$ref" \in DOMAIN rs_schema
    /\ ~Resolvable(rs_root, rs_schema["$ref"])
    /\ rs_pc' = "RefResolutionError"
    /\ UNCHANGED <<rs_root, rs_schema, rs_tick, notResolveVars>>

\* The loop condition is false: `return schema`.
ResolveReturn ==
    /\ rs_pc = "loop"
    /\ "$ref" \notin DOMAIN rs_schema
    /\ rs_pc' = "done"
    /\ UNCHANGED <<rs_root, rs_schema, rs_tick, notResolveVars>>

ResolveNext == ResolveFollow \/ ResolveFail \/ ResolveReturn

ResolveSpecInit == ResolveInit /\ ConvIdle /\ ObjIdle /\ ErrIdle /\ DEBUG_MODE = TRUE

\* The loop runs in one thread with nothing to wait for: an enabled step is taken.
SpecResolve == ResolveSpecInit /\ [][ResolveNext]_vars /\ WF_vars(ResolveNext)

\* C10: reference resolution terminates for every schema and root: the loop
\* is eventually left (by returning a fragment without "$ref" or by an
\* error such as SchemaCycleError); it never runs forever.
C10_ResolveTerminates == <>(rs_pc # "loop")


(***************************************************************************)
(* Conversion calls on one Document Object: to_dict, validate, from_dict.  *)
(***************************************************************************)

\* Bounds of the objects the calls are applied to.
MaxLen == 1

MaxFields == 1

Scalars == {Str("s"), Num(1), Undefined}

\* The keyword names objects and dicts are built with.
InputFields == {"a", "mark", "shorthand", "value"}

\* The classes of nested objects.
NestedClasses == {"Inner", "ValueDef"}

Maps(V) ==
    UNION {[D -> V] : D \in {D \in SUBSET InputFields : Cardinality(D) <= MaxFields}}

Seqs(V) == UNION {[1..n -> V] : n \in 0..MaxLen}

\* The objects of the classes in C with one positional value or with
\* keyword values drawn from V.
ObjectsOver(C, V) ==
    {Obj(c, <<>>, m) : c \in C, m \in Maps(V)}
    \cup {Obj(c, <<v>>, <<>>) : c \in C, v \in V}

\* Values nested in the object: scalars, and containers and objects of scalars.
NestedValues ==
    Scalars
    \cup {PyList(q) : q \in Seqs(Scalars)}
    \cup {PyTuple(q) : q \in Seqs(Scalars)}
    \cup {PyDict(m) : m \in Maps(Scalars)}
    \cup ObjectsOver(NestedClasses, Scalars)

\* The Document Objects the calls are applied to.
InputObjects == ObjectsOver(Classes, NestedValues)

ConvInit ==
    /\ cv_x \in InputObjects
    /\ cv_op = "new"
    /\ cv_res = Ok("None")
    /\ DEBUG_MODE \in BOOLEAN

\* x.to_dict(validate=b)
CallToDict ==
    /\ cv_op = "new"
    /\ \E b \in BOOLEAN :
          /\ cv_op' = IF b THEN "to_dict(validate=True)" ELSE "to_dict(validate=False)"
          /\ cv_res' = to_dict(cv_x, b, {})
    /\ UNCHANGED <<cv_x, notConvVars>>

\* The canonical form of x, to_dict(validate=False): a call on it is made
\* when computing it did not raise.
CanonicalX == to_dict_result(cv_x, {})

\* type(x).validate(x.to_dict(validate=False))
CallValidate ==
    /\ cv_op = "new"
    /\ CanonicalX.ok
    /\ cv_op' = "validate"
    /\ cv_res' = validate(cv_x.cls, CanonicalX.val)
    /\ UNCHANGED <<cv_x, notConvVars>>

\* type(x).from_dict(x.to_dict(validate=False), validate=b)
CallFromDict ==
    /\ cv_op = "new"
    /\ CanonicalX.ok
    /\ \E b \in BOOLEAN :
          /\ cv_op' = IF b THEN "from_dict(validate=True)" ELSE "from_dict(validate=False)"
          /\ cv_res' = from_dict(cv_x.cls, CanonicalX.val, b, DEBUG_MODE)
    /\ UNCHANGED <<cv_x, notConvVars>>

\* _FromDict(classes).from_dict(x.to_dict(validate=False),
\*     schema=type(x)._schema, rootschema=type(x)._rootschema)
CallRoundTrip ==
    /\ cv_op = "new"
    /\ CanonicalX.ok
    /\ cv_op' = "round_trip"
    /\ cv_res' = from_dict_schema(CanonicalX.val, ClassSchema(cv_x.cls),
                                  RootSchema, Passthrough, DEBUG_MODE)
    /\ UNCHANGED <<cv_x, notConvVars>>

\* from_dict applied to the Document Object itself: through _FromDict
\* (by class or by schema) and through SchemaBase.from_dict.
CallFromDictOfObject ==
    /\ cv_op = "new"
    /\ \/ /\ cv_op' = "_FromDict.from_dict(x, cls)"
          /\ cv_res' = from_dict_cls(cv_x, cv_x.cls, DEBUG_MODE)
       \/ /\ cv_op' = "_FromDict.from_dict(x, schema)"
          /\ cv_res' = from_dict_schema(cv_x, ClassSchema(cv_x.cls), RootSchema,
                                        Passthrough, DEBUG_MODE)
       \/ \E b \in BOOLEAN :
          /\ cv_op' = IF b THEN "from_dict(x, validate=True)" ELSE "from_dict(x, validate=False)"
          /\ cv_res' = from_dict(cv_x.cls, cv_x, b, DEBUG_MODE)
    /\ UNCHANGED <<cv_x, notConvVars>>

\* A field of x is read: x._get(name), x[name] or x.name.
CallReadField ==
    /\ cv_op = "new"
    /\ \E name \in InputFields :
          \/ /\ cv_op' = "x._get(name)"
             /\ cv_res' = [name |-> name, outcome |-> Ok(get(cv_x, name))]
          \/ /\ cv_op' = "x[name]"
             /\ cv_res' = [name |-> name, outcome |-> getitem(cv_x, name)]
          \/ /\ cv_op' = "x.name"
             /\ cv_res' = [name |-> name, outcome |-> getattr(cv_x, name)]
    /\ UNCHANGED <<cv_x, notConvVars>>

\* type(x)(*x._args, **x._kwds): an object is constructed from the value or
\* the fields x holds.
CallConstruct ==
    /\ cv_op = "new"
    /\ cv_op' = "construct"
    /\ cv_res' = init(cv_x.cls, cv_x.args, cv_x.kwds, DEBUG_MODE)
    /\ UNCHANGED <<cv_x, notConvVars>>

\* x.to_dict(validate=True), with the runs of the validator it makes.
CallToDictValidations ==
    /\ cv_op = "new"
    /\ cv_op' = "to_dict(validate=True), validator runs"
    /\ cv_res' = [runs |-> to_dict_validations(cv_x, TRUE), outcome |-> to_dict(cv_x, TRUE, {})]
    /\ UNCHANGED <<cv_x, notConvVars>>

\* The schemas from_dict is called with: references to definitions, the
\* definition of Inner itself and a schema no class is bound to.
FromDictSchemas ==
    { Ref("Top"), Ref("Inner"), Ref("ValueDef"), Ref("AnyMark"), Ref("Union"),
      RootSchema["Inner"], [type |-> "string"] }

\* _FromDict(classes).from_dict(x.to_dict(validate=False), schema=schema,
\*     rootschema=rootschema): a schema and no class.
CallFromDictWithSchema ==
    /\ cv_op = "new"
    /\ CanonicalX.ok
    /\ \E schema \in FromDictSchemas :
          /\ cv_op' = "_FromDict.from_dict(dct, schema)"
          /\ cv_res' = [ schema |-> schema,
                         outcome |-> from_dict_schema(CanonicalX.val, schema, RootSchema,
                                                      Passthrough, DEBUG_MODE) ]
    /\ UNCHANGED <<cv_x, notConvVars>>

\* The values of the argument `ignore`.
IgnoreLists == {{"a"}, {"a", "value"}}

\* x.to_dict(validate=False, ignore=S)
CallToDictIgnore ==
    /\ cv_op = "new"
    /\ \E ignore \in IgnoreLists :
          /\ cv_op' = "to_dict(validate=False, ignore=S)"
          /\ cv_res' = [ignore |-> ignore, outcome |-> to_dict(cv_x, FALSE, ignore)]
    /\ UNCHANGED <<cv_x, notConvVars>>

ConvNext ==
    \/ CallFromDictWithSchema \/ CallToDictIgnore
    \/ CallToDict \/ CallValidate \/ CallFromDict \/ CallRoundTrip \/ CallFromDictOfObject
    \/ CallReadField \/ CallConstruct \/ CallToDictValidations

ConvSpecInit == ConvInit /\ ResolveIdle /\ ObjIdle /\ ErrIdle

SpecConv == ConvSpecInit /\ [][ConvNext]_vars

(***************************************************************************)
(* Properties of the conversion calls.                                     *)
(***************************************************************************)

\* Whether the Undefined sentinel occurs in a value, at any depth.
RECURSIVE HasUndefined(_)
HasUndefined(v) ==
    CASE v.t = "undef" -> TRUE
      [] v.t \in {"list", "tuple"} -> \E i \in DOMAIN v.items : HasUndefined(v.items[i])
      [] v.t = "dict" -> \E k \in DOMAIN v.kv : HasUndefined(v.kv[k])
      [] v.t = "obj" -> \/ \E i \in DOMAIN v.args : HasUndefined(v.args[i])
                        \/ \E k \in DOMAIN v.kwds : HasUndefined(v.kwds[k])
      [] OTHER -> FALSE

\* Whether a canonical value holds a mapping with a "shorthand" key or with a
\* string under "mark": the entries to_dict rewrites.
RECURSIVE HasRewrittenKey(_)
HasRewrittenKey(v) ==
    CASE v.t = "list" -> \E i \in DOMAIN v.items : HasRewrittenKey(v.items[i])
      [] v.t = "dict" ->
            \/ "shorthand" \in DOMAIN v.kv
            \/ ("mark" \in DOMAIN v.kv /\ v.kv["mark"].t = "str")
            \/ \E k \in DOMAIN v.kv : HasRewrittenKey(v.kv[k])
      [] OTHER -> FALSE

\* A canonical value without the mapping entries whose value is Undefined.
RECURSIVE StripUndefined(_)
StripUndefined(v) ==
    CASE v.t = "list" -> PyList([i \in DOMAIN v.items |-> StripUndefined(v.items[i])])
      [] v.t = "dict" ->
            PyDict(Mapping([k \in {j \in DOMAIN v.kv : v.kv[j] # Undefined} |->
                               StripUndefined(v.kv[k])]))
      [] OTHER -> v

\* The raw errors of x's canonical form against the schema of x's class.
RawErrorsX == get_errors_from_spec(CanonicalX.val, ClassSchema(cv_x.cls), RootSchema)

StrippedCanonical(r) == IF r.ok THEN Ok(StripUndefined(r.val)) ELSE r

C2_NoUndefinedInOutput ==
    (cv_op = "to_dict(validate=False)" /\ cv_res.ok)
        => /\ ~HasUndefined(cv_res.val)
           /\ (cv_x.args = <<>> =>
                 \A k \in DOMAIN cv_res.val.kv :
                     k \in DOMAIN cv_x.kwds /\ cv_x.kwds[k] # Undefined)

\* C3: to_dict(validate=True) on an object whose canonical form does not
\* satisfy its schema fails with SchemaValidationError; when the canonical
\* form is valid it returns the canonical value.
C3_ToDictValidateOutcome ==
    (cv_op = "to_dict(validate=True)" /\ CanonicalX.ok)
        => IF RawErrorsX = <<>>
           THEN cv_res = CanonicalX
           ELSE ~cv_res.ok /\ cv_res.exc = "SchemaValidationError"

\* The public operations that validate.
ValidatingOps ==
    {"to_dict(validate=True)", "validate", "from_dict(validate=True)",
     "from_dict(validate=False)", "round_trip"}

\* C4: every validation failure a public operation surfaces is a
\* SchemaValidationError: the raw validator error never reaches the caller.
C4_NoRawValidatorError ==
    (cv_op \in ValidatingOps /\ ~cv_res.ok
     /\ cv_res.exc \in {"ValidationError", "SchemaValidationError"})
        => cv_res.exc = "SchemaValidationError"

\* The alternatives of the resolved schema of x's class that x's canonical
\* form validates against.
ValidAlternativesX ==
    LET alts == union_schemas(resolve_references(ClassSchema(cv_x.cls), RootSchema))
    IN {i \in DOMAIN alts : get_errors_from_spec(CanonicalX.val, alts[i], RootSchema) = <<>>}

\* C5: when the value validates against more than one alternative of the
\* anyOf/oneOf of the resolved schema, from_dict reconstructs it with the
\* first validating alternative as schema and the class matched so far as
\* the default class.
C5_UnionFirstMatch ==
    (cv_op = "round_trip" /\ Cardinality(ValidAlternativesX) > 1)
        => LET alts == union_schemas(resolve_references(ClassSchema(cv_x.cls), RootSchema))
               first == CHOOSE i \in ValidAlternativesX : \A j \in ValidAlternativesX : i <= j
           IN cv_res = from_dict_schema(CanonicalX.val, alts[first], RootSchema,
                                        class_dict(hash_schema(ClassSchema(cv_x.cls)))[1],
                                        DEBUG_MODE)

\* The calls of from_dict on the Document Object itself.
FromDictOfObjectOps ==
    {"_FromDict.from_dict(x, cls)", "_FromDict.from_dict(x, schema)",
     "from_dict(x, validate=True)", "from_dict(x, validate=False)"}

\* C6 (as claimed): from_dict applied to a Document Object returns that
\* object, through _FromDict.from_dict and through SchemaBase.from_dict.
C6_FromDictIdempotent ==
    cv_op \in FromDictOfObjectOps => cv_res = Ok(cv_x)

\* C6 (amended): _FromDict.from_dict, and SchemaBase.from_dict with
\* validate=False, return the Document Object they are given; with
\* validate=True SchemaBase.from_dict first validates the object as an
\* instance and returns it only when that passes, else it raises.
C6_FromDictIdempotentUnvalidated ==
    /\ cv_op \in (FromDictOfObjectOps \ {"from_dict(x, validate=True)"})
          => cv_res = Ok(cv_x)
    /\ cv_op = "from_dict(x, validate=True)"
          => IF get_errors_from_spec(cv_x, ClassSchema(cv_x.cls), RootSchema) = <<>>
             THEN cv_res = Ok(cv_x)
             ELSE ~cv_res.ok

\* C6 witness: SchemaBase.from_dict(x, validate=False) returned x.
C6_Witness ==
    cv_op = "from_dict(x, validate=False)" /\ cv_res = Ok(cv_x)

(***************************************************************************)
(* Objects in memory: construction, field writes, copy, property setters   *)
(* and the scopes of debug_mode.                                           *)
(*                                                                         *)
(* A SchemaBase instance, list, tuple or dict is a cell of `heap`; a value *)
(* held in a cell is a scalar or a reference [t |-> "ref", id] to a cell,  *)
(* so that two holders of one list or dict see each other's writes.        *)
(***************************************************************************)

Ptr(id) == [t |-> "ref", id |-> id]

\* The slots a cell holds.
Children(c) ==
    CASE c.t = "obj" -> {c.args[i] : i \in DOMAIN c.args} \cup {c.kwds[k] : k \in DOMAIN c.kwds}
      [] c.t = "dict" -> {c.kv[k] : k \in DOMAIN c.kv}
      [] OTHER -> {c.items[i] : i \in DOMAIN c.items}

\* The addresses of the cells reachable from a slot.
RECURSIVE Reach(_, _)
Reach(h, s) ==
    IF s.t # "ref" THEN {}
    ELSE {s.id} \cup UNION {Reach(h, child) : child \in Children(h[s.id])}

\* The Python value a slot denotes, references followed.
RECURSIVE Tree(_, _)
Tree(h, s) ==
    IF s.t # "ref" THEN s
    ELSE CASE h[s.id].t = "obj" ->
                Obj(h[s.id].cls,
                    Mapping([i \in DOMAIN h[s.id].args |-> Tree(h, h[s.id].args[i])]),
                    Mapping([k \in DOMAIN h[s.id].kwds |-> Tree(h, h[s.id].kwds[k])]))
           [] h[s.id].t = "dict" ->
                PyDict(Mapping([k \in DOMAIN h[s.id].kv |-> Tree(h, h[s.id].kv[k])]))
           [] OTHER ->
                [t |-> h[s.id].t,
                 items |-> Mapping([i \in DOMAIN h[s.id].items |-> Tree(h, h[s.id].items[i])])]

\* Allocation of a value: its nested values first, then its own cell.
RECURSIVE Alloc(_, _)
RECURSIVE AllocItems(_, _, _, _)
RECURSIVE AllocEntries(_, _, _, _, _)

AllocItemsNext(r, vs, i, acc) == AllocItems(r.h, vs, i + 1, Append(acc, r.s))

AllocItems(h, vs, i, acc) ==
    IF i > Len(vs) THEN [h |-> h, s |-> acc]
    ELSE AllocItemsNext(Alloc(h, vs[i]), vs, i, acc)

AllocEntriesNext(r, kv, ks, i, acc) ==
    AllocEntries(r.h, kv, ks, i + 1, (ks[i] :> r.s) @@ acc)

AllocEntries(h, kv, ks, i, acc) ==
    IF i > Len(ks) THEN [h |-> h, s |-> acc]
    ELSE AllocEntriesNext(Alloc(h, kv[ks[i]]), kv, ks, i, acc)

AllocCell(r, cell) == [h |-> Append(r.h, cell), s |-> Ptr(Len(r.h) + 1)]

AllocObjCell(cls, args, k) == AllocCell(k, Obj(cls, args, k.s))

AllocObj(v, a) == AllocObjCell(v.cls, a.s, AllocEntries(a.h, v.kwds, Keys(v.kwds), 1, <<>>))

AllocSeqCell(t, r) == AllocCell(r, [t |-> t, items |-> r.s])

AllocDictCell(r) == AllocCell(r, PyDict(r.s))

Alloc(h, v) ==
    CASE v.t = "obj" -> AllocObj(v, AllocItems(h, v.args, 1, <<>>))
      [] v.t \in {"list", "tuple"} -> AllocSeqCell(v.t, AllocItems(h, v.items, 1, <<>>))
      [] v.t = "dict" -> AllocDictCell(AllocEntries(h, v.kv, Keys(v.kv), 1, <<>>))
      [] OTHER -> [h |-> h, s |-> v]

\* debug_mode's `finally: DEBUG_MODE = original`: the flag when the scope is
\* left, `current` being the flag inside it and `raised` whether the body
\* raised.
debug_mode_exit_without_finally(original, current, raised) ==
    IF raised THEN current ELSE original

debug_mode_exit(original, current, raised) == original

\* What a copying step leaves: the heap, the slot or slots made, "ok" or the
\* exception raised, and DEBUG_MODE.
Copied(h, out, res, dbg) == [h |-> h, out |-> out, res |-> res, dbg |-> dbg]

\* `with debug_mode(False): return obj.__class__(*args, **kwds)`: __init__
\* asserts that args and kwds are not both given and, DEBUG_MODE being
\* False inside the scope, validates nothing.
construct_in_scope(h, cls, args, kwds, dbg, raised) ==
    Copied(IF raised THEN h ELSE Append(h, Obj(cls, args, kwds)),
           IF raised THEN Undefined ELSE Ptr(Len(h) + 1),
           IF raised THEN "AssertionError" ELSE "ok",
           debug_mode_exit(dbg, FALSE, raised))

construct_copy(h, cls, args, kwds, dbg) ==
    construct_in_scope(h, cls, args, kwds, dbg, DOMAIN kwds # {} /\ Len(args) # 0)

\* copy._deep_copy(obj, ignore)
RECURSIVE deep_copy(_, _, _, _)
RECURSIVE deep_copy_items(_, _, _, _, _, _)
RECURSIVE deep_copy_entries(_, _, _, _, _, _, _)

deep_copy_items_next(r, items, ignore, i, acc) ==
    IF r.res # "ok" THEN r
    ELSE deep_copy_items(r.h, items, ignore, r.dbg, i + 1, Append(acc, r.out))

deep_copy_items(h, items, ignore, dbg, i, acc) ==
    IF i > Len(items) THEN Copied(h, acc, "ok", dbg)
    ELSE deep_copy_items_next(deep_copy(h, items[i], ignore, dbg), items, ignore, i, acc)

deep_copy_entries_next(r, kv, ks, ignore, i, acc) ==
    IF r.res # "ok" THEN r
    ELSE deep_copy_entries(r.h, kv, ks, ignore, r.dbg, i + 1, (ks[i] :> r.out) @@ acc)

\* `k: (_deep_copy(v, ignore=ignore) if k not in ignore else v)`
deep_copy_entries(h, kv, ks, ignore, dbg, i, acc) ==
    IF i > Len(ks) THEN Copied(h, acc, "ok", dbg)
    ELSE deep_copy_entries_next(
            IF ks[i] \in ignore THEN Copied(h, kv[ks[i]], "ok", dbg)
            ELSE deep_copy(h, kv[ks[i]], ignore, dbg),
            kv, ks, ignore, i, acc)

deep_copy_construct(cls, args, k) ==
    IF k.res # "ok" THEN k ELSE construct_copy(k.h, cls, args, k.out, k.dbg)

\* `args = tuple(_deep_copy(arg) for arg in obj._args)` is `a`: kwds next.
deep_copy_obj(c, ignore, a) ==
    IF a.res # "ok" THEN a
    ELSE deep_copy_construct(c.cls, a.out,
            deep_copy_entries(a.h, c.kwds, Keys(c.kwds), ignore, a.dbg, 1, <<>>))

deep_copy_list(r) ==
    IF r.res # "ok" THEN r
    ELSE Copied(Append(r.h, PyList(r.out)), Ptr(Len(r.h) + 1), "ok", r.dbg)

deep_copy_dict(r) ==
    IF r.res # "ok" THEN r
    ELSE Copied(Append(r.h, PyDict(r.out)), Ptr(Len(r.h) + 1), "ok", r.dbg)

\* A SchemaBase, a list and a dict are rebuilt; anything else, a tuple
\* included, is returned as it is.
deep_copy(h, s, ignore, dbg) ==
    IF s.t # "ref" THEN Copied(h, s, "ok", dbg)
    ELSE CASE h[s.id].t = "obj" ->
                deep_copy_obj(h[s.id], ignore,
                              deep_copy_items(h, h[s.id].args, {}, dbg, 1, <<>>))
           [] h[s.id].t = "list" ->
                deep_copy_list(deep_copy_items(h, h[s.id].items, ignore, dbg, 1, <<>>))
           [] h[s.id].t = "dict" ->
                deep_copy_dict(deep_copy_entries(h, h[s.id].kv, Keys(h[s.id].kv),
                                                 ignore, dbg, 1, <<>>))
           [] OTHER -> Copied(h, s, "ok", dbg)

\* copy._shallow_copy(obj)
shallow_copy(h, s, dbg) ==
    IF s.t # "ref" THEN Copied(h, s, "ok", dbg)
    ELSE CASE h[s.id].t = "obj" ->
                construct_copy(h, h[s.id].cls, h[s.id].args, h[s.id].kwds, dbg)
           [] h[s.id].t = "list" ->
                Copied(Append(h, h[s.id]), Ptr(Len(h) + 1), "ok", dbg)
           [] h[s.id].t = "dict" ->
                Copied(Append(h, h[s.id]), Ptr(Len(h) + 1), "ok", dbg)
           [] OTHER -> Copied(h, s, "ok", dbg)

\* SchemaBase.__setattr__ and SchemaBase.__setitem__: `self._kwds[item] = val`
setitem(h, id, item, val) ==
    [h EXCEPT ![id] = [@ EXCEPT !.kwds = (item :> val) @@ @]]

\* `copy[attr] = _shallow_copy(copy._get(attr))`, sc being the shallow copy.
copy_attr(r, attr, sc) ==
    IF sc.res # "ok" THEN Copied(sc.h, r.out, sc.res, sc.dbg)
    ELSE Copied(setitem(sc.h, r.out.id, attr, sc.out), r.out, "ok", sc.dbg)

\* `for attr in deep:`
RECURSIVE copy_attrs(_, _, _)
copy_attrs(r, attrs, i) ==
    IF r.res # "ok" \/ i > Len(attrs) THEN r
    ELSE copy_attrs(copy_attr(r, attrs[i],
                              shallow_copy(r.h, get(r.h[r.out.id], attrs[i]), r.dbg)),
                    attrs, i + 1)

\* The values of the argument `deep`: True, False or a list of attributes.
Deep(all, attrs) == [all |-> all, attrs |-> attrs]

\* SchemaBase.copy(deep, ignore) on the object at address id.
copy(h, id, deep, ignore, dbg) ==
    IF deep.all THEN deep_copy(h, Ptr(id), ignore, dbg)
    ELSE copy_attrs(construct_copy(h, h[id].cls, h[id].args, h[id].kwds, dbg),
                    deep.attrs, 1)

(***************************************************************************)
(* The caller's steps on objects and on DEBUG_MODE.                        *)
(***************************************************************************)

\* The number of writes and of nested debug_mode scopes explored.
MaxWrites == 1
MaxScopes == 2

\* The values handed to a constructor: scalars, a list, a dict, a tuple
\* holding a dict, and nested objects.
HeapValues ==
    {Str("s"), Num(1),
     PyList(<<Num(1)>>),
     PyDict([a |-> Num(1)]),
     PyTuple(<<PyDict([a |-> Num(1)])>>),
     Obj("Inner", <<>>, [a |-> Str("s")])}

HeapClasses == {"Inner", "AnyMark"}
HeapFields == {"a", "value"}

\* The calls Cls(*args, **kwds) made: no argument, one positional value,
\* one keyword, or both a positional value and a keyword.
NewArguments ==
    {Obj(c, <<>>, <<>>) : c \in HeapClasses}
    \cup {Obj(c, <<v>>, <<>>) : c \in HeapClasses, v \in HeapValues}
    \cup {Obj(c, <<>>, f :> v) : c \in HeapClasses, f \in HeapFields, v \in HeapValues}
    \cup {Obj(c, <<Str("s")>>, [a |-> Str("s")]) : c \in HeapClasses}

\* The values written into fields and containers.
WriteValues == {Num(2)}

\* The arguments of copy.
DeepArguments == {Deep(TRUE, <<>>), Deep(FALSE, <<>>), Deep(FALSE, <<"a">>)}
IgnoreArguments == {{}, {"a"}}

CopyName(deep, ignore) ==
    IF deep.all
    THEN (IF ignore = {} THEN "copy(deep=True)" ELSE "copy(deep=True, ignore=['a'])")
    ELSE IF deep.attrs = <<>>
    THEN (IF ignore = {} THEN "copy(deep=False)" ELSE "copy(deep=False, ignore=['a'])")
    ELSE (IF ignore = {} THEN "copy(deep=['a'])" ELSE "copy(deep=['a'], ignore=['a'])")

\* The flag around the last scope exit or copy: at entry, just before the
\* exit and after it, and whether the body raised.
NoExit == [kind |-> "none", entered |-> TRUE, before |-> TRUE, after |-> TRUE, raised |-> FALSE]

ObjInit ==
    /\ heap = <<>> /\ ob_x = 0 /\ ob_y = 0
    /\ ob_copy = "none" /\ ob_snap = Undefined
    /\ ob_op = "import" /\ ob_res = "ok" /\ ob_writes = 0
    /\ dbg_stack = <<>> /\ dbg_exit = NoExit
    /\ DEBUG_MODE = TRUE

\* x = Cls(*args, **kwds), r being what __init__ does under DEBUG_MODE.
NewResult(v, r) ==
    /\ ob_res' = IF r.ok THEN "ok" ELSE r.exc
    /\ heap' = IF r.ok THEN Alloc(heap, v).h ELSE heap
    /\ ob_x' = IF r.ok THEN Alloc(heap, v).s.id ELSE 0
    /\ ob_snap' = IF r.ok THEN v ELSE ob_snap

New ==
    /\ ob_x = 0
    /\ \E v \in NewArguments :
          /\ ob_op' = IF v.args # <<>> /\ DOMAIN v.kwds # {}
                      THEN "Cls(arg, **kwds)" ELSE "Cls(...)"
          /\ NewResult(v, init(v.cls, v.args, v.kwds, DEBUG_MODE))
    /\ UNCHANGED <<ob_y, ob_copy, ob_writes, DEBUG_MODE, dbg_stack, dbg_exit,
                   convVars, resolveVars, errVars, setterVars>>

\* The object a write goes through, x or its copy y.
RootId(root) == IF root = "x" THEN ob_x ELSE ob_y

\* A write through `root` that leaves the heap h: x as the caller left it
\* is x as it now is when the write went through x.
Written(root, h, name) ==
    /\ heap' = h
    /\ ob_snap' = IF root = "x" THEN Tree(h, Ptr(ob_x)) ELSE ob_snap
    /\ ob_op' = name
    /\ ob_res' = "ok"
    /\ ob_writes' = ob_writes + 1
    /\ UNCHANGED <<ob_x, ob_y, ob_copy, DEBUG_MODE, dbg_stack, dbg_exit,
                   convVars, resolveVars, errVars, setterVars>>

\* obj.item = val and obj[item] = val, obj being x, y or an object nested
\* in them.
SetAttr ==
    /\ ob_writes < MaxWrites
    /\ \E root \in {"x", "y"} :
          /\ RootId(root) # 0
          /\ \E id \in Reach(heap, Ptr(RootId(root))), item \in HeapFields,
                val \in WriteValues, name \in {"__setattr__", "__setitem__"} :
                /\ heap[id].t = "obj"
                /\ Written(root, setitem(heap, id, item, val), name)

\* lst[i] = val on a list held in x or y.
ListSetItem ==
    /\ ob_writes < MaxWrites
    /\ \E root \in {"x", "y"} :
          /\ RootId(root) # 0
          /\ \E id \in Reach(heap, Ptr(RootId(root))), val \in WriteValues :
                /\ heap[id].t = "list"
                /\ \E i \in DOMAIN heap[id].items :
                      Written(root,
                              [heap EXCEPT ![id] = [@ EXCEPT !.items = [@ EXCEPT ![i] = val]]],
                              "list[i] = val")

\* dct[key] = val on a dict held in x or y.
DictSetItem ==
    /\ ob_writes < MaxWrites
    /\ \E root \in {"x", "y"} :
          /\ RootId(root) # 0
          /\ \E id \in Reach(heap, Ptr(RootId(root))), key \in HeapFields,
                val \in WriteValues :
                /\ heap[id].t = "dict"
                /\ Written(root,
                           [heap EXCEPT ![id] = [@ EXCEPT !.kv = (key :> val) @@ @]],
                           "dict[key] = val")

\* What a call that copies x leaves, r being what copy did and h the heap
\* once the call is over; what a call that raised had allocated is garbage.
CopyResult(r, h, name) ==
    /\ heap' = h
    /\ ob_res' = r.res
    /\ ob_y' = IF r.res = "ok" THEN r.out.id ELSE 0
    /\ ob_copy' = IF r.res = "ok" THEN name ELSE ob_copy
    /\ ob_op' = name
    /\ DEBUG_MODE' = r.dbg
    /\ dbg_exit' = [kind |-> "copy", entered |-> DEBUG_MODE, before |-> DEBUG_MODE,
                    after |-> r.dbg, raised |-> r.res # "ok"]
    /\ UNCHANGED <<ob_x, ob_snap, ob_writes, dbg_stack, convVars, resolveVars, errVars, setterVars>>

CopyReturned(r, name) == CopyResult(r, IF r.res = "ok" THEN r.h ELSE heap, name)

\* y = x.copy(deep, ignore)
Copy ==
    /\ ob_x # 0 /\ ob_y = 0
    /\ \E deep \in DeepArguments, ignore \in IgnoreArguments :
          CopyReturned(copy(heap, ob_x, deep, ignore, DEBUG_MODE), CopyName(deep, ignore))

SetterReturned(r, prop, val) ==
    CopyResult(r, IF r.res = "ok" THEN setitem(r.h, r.out.id, prop, val) ELSE heap,
               "_PropertySetter.__call__")

\* y = x.prop(val): `obj = self.obj.copy(); obj[self.prop] = args[0]`
CallPropertySetter ==
    /\ ob_x # 0 /\ ob_y = 0
    /\ \E prop \in HeapFields, val \in WriteValues :
          SetterReturned(copy(heap, ob_x, Deep(TRUE, <<>>), {}, DEBUG_MODE), prop, val)

\* enable_debug_mode() and disable_debug_mode()
EnableDebugMode ==
    /\ DEBUG_MODE' = TRUE
    /\ UNCHANGED <<objVars, convVars, resolveVars, errVars, setterVars>>

DisableDebugMode ==
    /\ DEBUG_MODE' = FALSE
    /\ UNCHANGED <<objVars, convVars, resolveVars, errVars, setterVars>>

\* `with debug_mode(arg):` up to the yield.
DebugModeEnter ==
    /\ Len(dbg_stack) < MaxScopes
    /\ \E arg \in BOOLEAN : DEBUG_MODE' = arg
    /\ dbg_stack' = Append(dbg_stack, [original |-> DEBUG_MODE, entered |-> DEBUG_MODE])
    /\ UNCHANGED <<heap, ob_x, ob_y, ob_copy, ob_snap, ob_op, ob_res, ob_writes,
                   dbg_exit, convVars, resolveVars, errVars, setterVars>>

\* The innermost scope is left, its body having returned or raised.
DebugModeExit ==
    /\ dbg_stack # <<>>
    /\ \E raised \in BOOLEAN :
          /\ DEBUG_MODE' = debug_mode_exit(dbg_stack[Len(dbg_stack)].original,
                                           DEBUG_MODE, raised)
          /\ dbg_exit' = [kind |-> "scope",
                          entered |-> dbg_stack[Len(dbg_stack)].entered,
                          before |-> DEBUG_MODE,
                          after |-> DEBUG_MODE',
                          raised |-> raised]
    /\ dbg_stack' = SubSeq(dbg_stack, 1, Len(dbg_stack) - 1)
    /\ UNCHANGED <<heap, ob_x, ob_y, ob_copy, ob_snap, ob_op, ob_res, ob_writes,
                   convVars, resolveVars, errVars, setterVars>>

ObjNext ==
    \/ New \/ SetAttr \/ ListSetItem \/ DictSetItem \/ Copy \/ CallPropertySetter
    \/ EnableDebugMode \/ DisableDebugMode \/ DebugModeEnter \/ DebugModeExit

\* No second object and no property setter in use.
SetterIdle == ps_b = 0 /\ ps_obj = Idle /\ ps_held = Idle

ObjSpecInit == ObjInit /\ SetterIdle /\ ConvIdle /\ ResolveIdle /\ ErrIdle

SpecObj == ObjSpecInit /\ [][ObjNext]_vars

\* C7: the positional value and the named fields of a Document Object are
\* never both populated, whatever writes, copies and property-setter calls
\* were made, and constructing with both raises and yields no object.
C7_NeverBothPopulated ==
    /\ \A id \in DOMAIN heap :
          heap[id].t = "obj" => ~(heap[id].args # <<>> /\ DOMAIN heap[id].kwds # {})
    /\ ob_op = "Cls(arg, **kwds)" => (ob_res # "ok" /\ ob_x = 0)

\* The calls that make y a deep copy of x.
DeepCopyNames == {"copy(deep=True)"}

\* C8: after y = x.copy(deep=True), no write made through y, or through
\* anything reachable from y, changes x: x stays as its holder left it.
C8_DeepCopyIsolated ==
    (ob_y # 0 /\ ob_copy \in DeepCopyNames) => Tree(heap, Ptr(ob_x)) = ob_snap

\* C9: when a debug_mode scope is left, by return or by exception and at any
\* nesting depth, DEBUG_MODE is what it was when the scope was entered; and
\* copy, in any form, leaves DEBUG_MODE as it found it whether it returns
\* or raises.
C9_DebugModeRestored ==
    dbg_exit.kind # "none" => dbg_exit.after = dbg_exit.entered

\* C9 witness: x was copied, and later a scope nested in another was left by
\* an exception, which changed DEBUG_MODE back.
C9_Witness ==
    /\ ob_y # 0
    /\ dbg_exit.kind = "scope" /\ dbg_exit.raised
    /\ dbg_exit.before # dbg_exit.after
    /\ dbg_exit.after = dbg_exit.entered
    /\ Len(dbg_stack) = 1


(***************************************************************************)
(* Error reports: the functions of validate_jsonschema and of              *)
(* SchemaValidationError applied to the errors of one instance validated   *)
(* against {"$ref": "Chart"} of ChartRootSchema.                           *)
(***************************************************************************)

\* The most keys an instance has.
MaxSpecFields == 4

\* The values an instance may hold under each key: valid ones and ones that
\* break each rule of the property's schema.
ChartKeyValues ==
    [ a         |-> { Str("s"), Num(1), PyDict("a" :> Num(1)), PyDict("a" :> Str("s")),
                      PyDict("shorthand" :> Num(1)) },
      ab        |-> { Str("s"), Num(1) },
      mark      |-> { PyDict("type" :> Str("A")), PyDict("type" :> Str("z")),
                      PyDict("shorthand" :> Num(1)), Num(1) },
      value     |-> { PyDict("value" :> Num(1)), PyDict(<<>>),
                      PyDict("shorthand" :> Num(1)), PyDict("value" :> Str("s")) },
      shorthand |-> { Num(1) } ]

ChartKeys == <<"a", "ab", "mark", "value", "shorthand">>

\* The mappings over the keys from the i-th on.
RECURSIVE ChartMaps(_)
ChartMaps(i) ==
    IF i > Len(ChartKeys) THEN {<<>>}
    ELSE LET rest == ChartMaps(i + 1)
         IN rest \cup {(ChartKeys[i] :> v) @@ m : v \in ChartKeyValues[ChartKeys[i]], m \in rest}

\* The instances validated.
ChartSpecs ==
    {PyDict(m) : m \in {m \in ChartMaps(1) : Cardinality(DOMAIN m) <= MaxSpecFields}}

ErrInit ==
    /\ er_spec \in ChartSpecs
    /\ er_op = "new"
    /\ er_res = Ok("None")

\* The variables an error-report call leaves alone.
notErrVars == <<DEBUG_MODE, resolveVars, convVars, objVars, setterVars>>

\* The errors the validator reports for the instance.
SpecErrors == get_errors_from_spec(er_spec, Ref("Chart"), ChartRootSchema)

\* The leaves of the errors, grouped by json path.
SpecGroups == group_errors_by_json_path(get_leaves_of_error_tree(SpecErrors))

\* _subset_to_most_specific_json_paths(errors_by_json_path)
CallSubsetToMostSpecificJsonPaths ==
    /\ er_op = "new"
    /\ er_op' = "_subset_to_most_specific_json_paths"
    /\ er_res' = Ok(subset_to_most_specific_json_paths(SpecGroups))
    /\ UNCHANGED <<er_spec, notErrVars>>

\* _deduplicate_errors(grouped_errors)
CallDeduplicateErrors ==
    /\ er_op = "new"
    /\ er_op' = "_deduplicate_errors"
    /\ er_res' = Ok(deduplicate_errors(subset_to_most_specific_json_paths(SpecGroups)))
    /\ UNCHANGED <<er_spec, notErrVars>>

\* validate_jsonschema(spec, schema, rootschema)
CallValidateJsonschema ==
    /\ er_op = "new"
    /\ er_op' = "validate_jsonschema"
    /\ er_res' = validate_jsonschema(er_spec, Ref("Chart"), ChartRootSchema)
    /\ UNCHANGED <<er_spec, notErrVars>>

\* The Chart whose canonical form is the instance.
ChartObject == Obj("Chart", <<>>, er_spec.kv)

\* SchemaValidationError(self, err) for the error validate_jsonschema raised.
error_report(v) ==
    IF ~v.ok /\ v.exc = "ValidationError" THEN SchemaValidationError(ChartObject, v) ELSE v

CallSchemaValidationError ==
    /\ er_op = "new"
    /\ er_op' = "SchemaValidationError"
    /\ er_res' = error_report(validate_jsonschema(er_spec, Ref("Chart"), ChartRootSchema))
    /\ UNCHANGED <<er_spec, notErrVars>>

ErrNext ==
    \/ CallSubsetToMostSpecificJsonPaths \/ CallDeduplicateErrors
    \/ CallValidateJsonschema \/ CallSchemaValidationError

ErrSpecInit == ErrInit /\ ResolveIdle /\ ConvIdle /\ ObjIdle /\ DEBUG_MODE = TRUE

SpecErr == ErrSpecInit /\ [][ErrNext]_vars

\* p is a string that q starts with and that is not q.
IsStrictPrefix(p, q) == Len(p) < Len(q) /\ \A i \in 1..Len(p) : p[i] = q[i]

\* The groups of `groups` that are, unchanged, among those of `kept`.
Retained(groups, kept) == {g \in DOMAIN groups : \E j \in DOMAIN kept : kept[j] = groups[g]}

\* The groups kept are those of `groups` whose path no other path extends.
IsMostSpecificSubset(groups, kept) ==
    /\ \A g \in DOMAIN groups :
          g \in Retained(groups, kept)
          <=> ~\E h \in DOMAIN groups : IsStrictPrefix(groups[g].path, groups[h].path)
    /\ \A j \in DOMAIN kept : \E g \in DOMAIN groups : kept[j] = groups[g]
    /\ Len(kept) = Cardinality(Retained(groups, kept))

\* C11: after _subset_to_most_specific_json_paths a group is retained exactly
\* when its json path is not a strict string prefix of the json path of
\* another group, and the retained groups are groups of the input with their
\* errors unchanged.
C11_RetainedIffNoLongerPath ==
    er_op = "_subset_to_most_specific_json_paths" =>
        IsMostSpecificSubset(SpecGroups, er_res.val)

DroppedSomeKeptSeveral(groups, kept) == Len(kept) >= 2 /\ Len(kept) < Len(groups)

\* A call that dropped a group and retained two others.
C11_Witness ==
    /\ er_op = "_subset_to_most_specific_json_paths"
    /\ DroppedSomeKeptSeveral(SpecGroups, er_res.val)

\* The keys and indices of the path the errors of a group are at.
Segments(group) == group.errors[1].path

\* Every group dropped is at an ancestor, key by key, of a group kept.
DroppedAreAncestors(groups, kept) ==
    \A g \in DOMAIN groups \ Retained(groups, kept) :
        \E j \in DOMAIN kept : IsStrictPrefix(Segments(groups[g]), Segments(kept[j]))

\* C18: _subset_to_most_specific_json_paths only removes parent-level errors:
\* the path of every dropped group is an ancestor, key by key, of the path of
\* a retained group, so that $.a is not dropped because of its sibling $.ab.
C18_DroppedAreAncestors ==
    er_op = "_subset_to_most_specific_json_paths" =>
        DroppedAreAncestors(SpecGroups, er_res.val)

\* The groups _deduplicate_errors is handed.
SpecMostSpecific == subset_to_most_specific_json_paths(SpecGroups)

\* The allowed values of an enum error, as a set.
AllowedValues(err) == {err.validator_value[i] : i \in DOMAIN err.validator_value}

\* Of the enum errors of every group exactly those remain whose allowed
\* values are not a proper subset of those of another enum error of the group.
OnlyMaximalEnumsRemain(before, after) ==
    \A g \in DOMAIN before :
        \A i \in DOMAIN before[g].errors :
            before[g].errors[i].validator = "enum" =>
                ( (\E j \in DOMAIN after[g].errors : after[g].errors[j] = before[g].errors[i])
                  <=> ~\E h \in DOMAIN before[g].errors :
                          /\ before[g].errors[h].validator = "enum"
                          /\ AllowedValues(before[g].errors[i]) # AllowedValues(before[g].errors[h])
                          /\ AllowedValues(before[g].errors[i]) \subseteq AllowedValues(before[g].errors[h]) )

\* C12: enum de-duplication drops an enum error exactly when its set of
\* allowed values is a subset of that of another enum error at the same
\* path, so that only the errors with maximal sets of allowed values remain.
C12_OnlyMaximalEnumsRemain ==
    er_op = "_deduplicate_errors" => OnlyMaximalEnumsRemain(SpecMostSpecific, er_res.val)

\* The outcome is a ValidationError carrying at least one group of errors and
\* no empty group.
IsGroupedValidationError(res) ==
    /\ ~res.ok
    /\ res.exc = "ValidationError"
    /\ res.all_errors # <<>>
    /\ \A g \in DOMAIN res.all_errors : res.all_errors[g].errors # <<>>

\* C17: whenever the validator reports at least one raw error for the
\* instance, validate_jsonschema produces a ValidationError whose grouped
\* errors hold at least one group and no empty group; it neither returns
\* success nor fails with another exception.
C17_ErrorsGiveValidationError ==
    er_op = "validate_jsonschema" =>
        (SpecErrors # <<>> => IsGroupedValidationError(er_res))

\* The text of a section is about the group: about the instance at its path,
\* or about a parameter its first error found unexpected.
SectionIsAbout(text, group) ==
    IF text.kind = "invalid value"
    THEN /\ text.instance = group.errors[1].instance
         /\ text.for = (IF Segments(group) = <<>> THEN <<>>
                        ELSE <<Segments(group)[Len(Segments(group))]>>)
    ELSE text.parameter_name \in group.errors[1].message.detail

\* The message has a section for each of the first three groups, in their
\* order; several sections are numbered from 1 and introduced, one is not.
ShowsFirstThreeGroups(message, groups) ==
    /\ Len(message.sections) <= 3
    /\ Len(message.sections) = (IF Len(groups) < 3 THEN Len(groups) ELSE 3)
    /\ \A i \in DOMAIN message.sections : SectionIsAbout(message.sections[i].text, groups[i])
    /\ Len(message.sections) > 1 =>
          /\ message.multiple_errors_were_found
          /\ \A i \in DOMAIN message.sections : message.sections[i].error_id = i
    /\ Len(message.sections) = 1 =>
          /\ ~message.multiple_errors_were_found
          /\ message.sections[1].error_id = 0

\* C13: the rendered message of a SchemaValidationError has at most 3
\* sections, for the first 3 groups in order, however many groups were
\* retained; more than one section are numbered "Error 1:", "Error 2:", ...
\* and the message starts with "Multiple errors were found."; a single
\* section carries neither.
C13_AtMostThreeSections ==
    (er_op = "SchemaValidationError" /\ ~er_res.ok /\ er_res.exc = "SchemaValidationError")
        => ShowsFirstThreeGroups(er_res.message, er_res.errors)

\* A message rendered for an error with more than three groups.
C13_Witness ==
    /\ er_op = "SchemaValidationError" /\ ~er_res.ok /\ er_res.exc = "SchemaValidationError"
    /\ Len(er_res.errors) > 3
    /\ er_res.message.multiple_errors_were_found

\* The names a table of parameter names lists.
TableNames(table) ==
    {table[r][c].name : r \in DOMAIN table, c \in 1..Len(table[1])} \ {""}

\* The definition of ChartRootSchema that forbids additional properties of
\* the instance at the path.
ClosedDefinitionAt(path) ==
    IF path = <<>> THEN "Chart"
    ELSE CASE path[1].k = "a"     -> "Nested"
           [] path[1].k = "mark"  -> "Mark"
           [] path[1].k = "value" -> "NumberValueDef"

\* The wrapper class the last key of the path names, else that of the object.
ClassNamedBy(path) ==
    IF path # <<>> /\ path[Len(path)].k = "mark" THEN "Mark" ELSE "Chart"

\* The section names a field the error found unexpected and lists the
\* properties the definition `def` declares.
NamesFieldAndLists(text, error, def) ==
    /\ text.kind = "no parameter named"
    /\ text.parameter_name \in error.message.detail
    /\ TableNames(text.table) = DOMAIN ChartRootSchema[def]["properties"]

\* Every group shown that holds an additionalProperties error gets a section
\* naming the unexpected field and listing the fields its schema declares.
ListsDeclaredFields(message, groups) ==
    \A g \in DOMAIN message.sections :
        \A i \in DOMAIN groups[g].errors :
            groups[g].errors[i].validator = "additionalProperties" =>
                NamesFieldAndLists(message.sections[g].text, groups[g].errors[i],
                                   ClosedDefinitionAt(groups[g].errors[i].path))

\* C14 as stated: for a failure of a schema that forbids additional
\* properties on an instance with an undeclared field, the rendered message
\* names the unexpected field and lists the schema's declared field names.
C14_ListsDeclaredFields ==
    (er_op = "SchemaValidationError" /\ ~er_res.ok /\ er_res.exc = "SchemaValidationError")
        => ListsDeclaredFields(er_res.message, er_res.errors)

\* A group whose first error is an additionalProperties error gets a section
\* naming the unexpected field and listing the parameters of the wrapper
\* class found from the path; another group holding such an error gets the
\* default section, which quotes the raw message of that error.
ListsParametersOfClass(message, groups) ==
    \A g \in DOMAIN message.sections :
        IF groups[g].errors[1].validator = "additionalProperties"
        THEN /\ NamesFieldAndLists(message.sections[g].text, groups[g].errors[1],
                                   ClassNamedBy(groups[g].errors[1].path))
             /\ message.sections[g].text.cls = ClassNamedBy(groups[g].errors[1].path)
        ELSE /\ message.sections[g].text.kind = "invalid value"
             /\ \A i \in DOMAIN groups[g].errors :
                   groups[g].errors[i].validator = "additionalProperties" =>
                       \E j \in DOMAIN message.sections[g].text.messages :
                           message.sections[g].text.messages[j] = groups[g].errors[i].message

\* C14, amended: when the first error of a group is an additionalProperties
\* error, the section names the unexpected field and lists the parameter
\* names of the wrapper class named by the last key of the path that names
\* one, else of the class of the object validated; otherwise the unexpected
\* field appears in the quoted raw message only.
C14_ListsParametersOfClass ==
    (er_op = "SchemaValidationError" /\ ~er_res.ok /\ er_res.exc = "SchemaValidationError")
        => ListsParametersOfClass(er_res.message, er_res.errors)

HasSectionOfClass(message, cls) ==
    \E g \in DOMAIN message.sections :
        /\ message.sections[g].text.kind = "no parameter named"
        /\ message.sections[g].text.cls = cls

\* A message with a section listing the parameters of Mark for an unexpected
\* field under $.mark.
C14_Witness ==
    /\ er_op = "SchemaValidationError" /\ ~er_res.ok /\ er_res.exc = "SchemaValidationError"
    /\ HasSectionOfClass(er_res.message, "Mark")


(***************************************************************************)
(* Properties of reading fields and of construction.                       *)
(***************************************************************************)

ReadOps == {"x._get(name)", "x[name]", "x.name"}

\* The field is not set: not stored, or stored as Undefined.
IsUnset(self, name) == name \notin DOMAIN self.kwds \/ self.kwds[name] = Undefined

ReadsStoredField(self, op, name, outcome) ==
    IF name \in DOMAIN self.kwds
    THEN outcome = Ok(self.kwds[name])
    ELSE outcome = (CASE op = "x._get(name)" -> Ok(Undefined)
                      [] op = "x[name]"      -> Raise("KeyError")
                      [] op = "x.name"       -> Raise("AttributeError"))

UnionReconstruction(dct, cls, schema, valid, debug) ==
    IF valid = {}
    THEN from_dict_value(dct, cls, schema, RootSchema, debug)
    ELSE from_dict_schema(dct,
            union_schemas(schema)[CHOOSE i \in valid : \A j \in valid : i <= j],
            RootSchema, cls, debug)

\* C16: in the union matching of from_dict every failure to validate the
\* value against an alternative is caught and the next alternative is
\* tried, so that no error of a branch validation reaches the caller; when
\* no alternative validates, reconstruction goes on with the union schema.
C16_UnionFailuresCaught ==
    (cv_op = "round_trip"
     /\ union_schemas(resolve_references(ClassSchema(cv_x.cls), RootSchema)) # <<>>)
        => cv_res = UnionReconstruction(CanonicalX.val,
                        class_dict(hash_schema(ClassSchema(cv_x.cls)))[1],
                        resolve_references(ClassSchema(cv_x.cls), RootSchema),
                        ValidAlternativesX, DEBUG_MODE)

\* What construction gives when the class validates eagerly: the object when
\* its canonical form has no raw error, else SchemaValidationError.
EagerlyValidated(x, canonical, errors, res) ==
    IF ~canonical.ok THEN res = canonical
    ELSE IF errors = <<>> THEN res = Ok(x)
    ELSE ~res.ok /\ res.exc = "SchemaValidationError"

\* C19: construction validates exactly when DEBUG_MODE is true and the
\* class is valid at instantiation: then constructing an object whose
\* canonical form violates the schema raises SchemaValidationError and
\* yields no object; otherwise construction does not run the validator and
\* raises no validation error.
C19_EagerValidation ==
    cv_op = "construct" =>
        IF DEBUG_MODE /\ ClassIsValidAtInstantiation(cv_x.cls)
        THEN EagerlyValidated(cv_x, CanonicalX, RawErrorsX, cv_res)
        ELSE cv_res = Ok(cv_x)

\* The objects held directly by the value or the fields of x.
NestedObjects(x) ==
    {x.kwds[k] : k \in {k \in DOMAIN x.kwds : IsSchemaBase(x.kwds[k])}}
    \cup {x.args[i] : i \in {i \in DOMAIN x.args : IsSchemaBase(x.args[i])}}

\* C20: to_dict(validate=True) on a tree of objects runs the validator
\* exactly once, on the complete canonical value of the top-level object
\* against its schema, after canonicalisation; the nested objects are
\* canonicalised with validate=False and never validated on their own.
C20_ValidatedOnceAtTop ==
    (cv_op = "to_dict(validate=True), validator runs" /\ CanonicalX.ok)
        => cv_res.runs = <<[cls |-> cv_x.cls, instance |-> CanonicalX.val]>>

\* The object is not valid as an instance of its own class.
InvalidOnItsOwn(o) ==
    get_errors_from_spec(to_dict_result(o, {}).val, ClassSchema(o.cls), RootSchema) # <<>>

\* to_dict(validate=True) returned for an object holding an object that is
\* invalid on its own.
C20_Witness ==
    /\ cv_op = "to_dict(validate=True), validator runs"
    /\ cv_res.outcome.ok
    /\ Len(cv_res.runs) = 1
    /\ \E o \in NestedObjects(cv_x) : InvalidOnItsOwn(o)


(***************************************************************************)
(* Properties of the class chosen and the fields rebuilt by from_dict.     *)
(***************************************************************************)

\* The first class of the class list whose schema equals the schema once the
\* excluded top-level keys are left out of both, else the default class.
FirstClassFor(schema, default_class) ==
    LET same == {i \in DOMAIN WrapperClasses :
                    /\ DOMAIN ClassSchema(WrapperClasses[i]) \ HashExcludeKeys
                          = DOMAIN schema \ HashExcludeKeys
                    /\ \A k \in DOMAIN schema \ HashExcludeKeys :
                          ClassSchema(WrapperClasses[i])[k] = schema[k]}
    IN IF same = {} THEN default_class
       ELSE WrapperClasses[CHOOSE i \in same : \A j \in same : i <= j]

\* The value returned is an instance of the class; of _passthrough, the raw
\* value.
IsInstanceOf(val, cls) ==
    IF cls = Passthrough THEN ~IsSchemaBase(val) ELSE IsSchemaBase(val) /\ val.cls = cls

\* C21 as stated: from_dict given a schema and no class constructs the
\* first class of the registry bucket for the hash of the resolved schema,
\* and the default type when that bucket is empty.
C21_ClassOfResolvedSchema ==
    (cv_op = "_FromDict.from_dict(dct, schema)" /\ cv_res.outcome.ok
     /\ union_schemas(resolve_references(cv_res.schema, RootSchema)) = <<>>)
        => IsInstanceOf(cv_res.outcome.val,
                        FirstClassFor(resolve_references(cv_res.schema, RootSchema), Passthrough))

\* The alternatives of the schema the value has no raw error against.
ValidAlternatives(dct, schema) ==
    {i \in DOMAIN union_schemas(schema) :
        get_errors_from_spec(dct, union_schemas(schema)[i], RootSchema) = <<>>}

\* The class from_dict constructs: that of the schema as given, or, when the
\* resolved schema is a union with a valid alternative, that of the first
\* such alternative with the former as default.
ClassConstructed(dct, schema, resolved, valid) ==
    IF valid = {} THEN FirstClassFor(schema, Passthrough)
    ELSE FirstClassFor(union_schemas(resolved)[CHOOSE i \in valid : \A j \in valid : i <= j],
                       FirstClassFor(schema, Passthrough))

\* C21, amended: the class is looked up by the hash of the schema as it was
\* given, before its references are resolved: the first class of that
\* bucket, the default type when it is empty; a union then hands this class
\* on as the default type for its first valid alternative.
C21_ClassOfGivenSchema ==
    (cv_op = "_FromDict.from_dict(dct, schema)" /\ cv_res.outcome.ok)
        => IsInstanceOf(cv_res.outcome.val,
              ClassConstructed(CanonicalX.val, cv_res.schema,
                  resolve_references(cv_res.schema, RootSchema),
                  ValidAlternatives(CanonicalX.val,
                      resolve_references(cv_res.schema, RootSchema))))

\* A call with a reference two classes are bound to, and a call with a
\* schema no class is bound to.
C21_Witness ==
    /\ cv_op = "_FromDict.from_dict(dct, schema)" /\ cv_res.outcome.ok
    /\ cv_res.schema = Ref("Inner")
    /\ IsInstanceOf(cv_res.outcome.val, "Inner")

\* The fields the value returned was constructed from: those of the object,
\* or the mapping _passthrough returns.
FieldsOf(val) == IF IsSchemaBase(val) THEN val.kwds ELSE val.kv

\* The fields are those of the mapping `kv`: the declared ones rebuilt
\* against the schema of their property, the others as they were.
RebuiltFields(fields, kv, props, debug) ==
    /\ DOMAIN fields = DOMAIN kv
    /\ \A key \in DOMAIN kv :
          IF key \in DOMAIN props
          THEN Ok(fields[key]) = from_dict_schema(kv[key], props[key], RootSchema,
                                                  Passthrough, debug)
          ELSE fields[key] = kv[key]

\* The call went through the mapping branch: the value is a mapping and the
\* resolved schema has no alternative the value validates against.
InMappingBranch(dct, resolved) ==
    dct.t = "dict" /\ ValidAlternatives(dct, resolved) = {}

\* C22: when the value is a mapping, from_dict rebuilds exactly the fields
\* declared in the properties of the resolved schema, each against the
\* schema of its property, passes every other field through unchanged, and
\* constructs the class from a field mapping with the keys of the input.
C22_DeclaredFieldsRebuilt ==
    (cv_op = "_FromDict.from_dict(dct, schema)" /\ cv_res.outcome.ok
     /\ InMappingBranch(CanonicalX.val, resolve_references(cv_res.schema, RootSchema)))
        => RebuiltFields(FieldsOf(cv_res.outcome.val), CanonicalX.val.kv,
                         SchemaGet(resolve_references(cv_res.schema, RootSchema), "properties"),
                         DEBUG_MODE)

\* A declared field was rebuilt into an object.
C22_Witness ==
    /\ cv_op = "_FromDict.from_dict(dct, schema)" /\ cv_res.outcome.ok
    /\ CanonicalX.val.t = "dict"
    /\ cv_res.schema = Ref("Top")
    /\ \E key \in DOMAIN FieldsOf(cv_res.outcome.val) :
          /\ IsSchemaBase(FieldsOf(cv_res.outcome.val)[key])
          /\ ~IsSchemaBase(CanonicalX.val.kv[key])

(***************************************************************************)
(* De-duplication of errors: _deduplicate_errors and its helpers applied   *)
(* to the errors of one instance validated against {"$ref": "Encoding"}    *)
(* of a root document whose properties are unions of closed objects.       *)
(***************************************************************************)

\* a: a union of three closed objects; ab: a union nested in a union;
\* mark: a oneOf of closed objects; value: a union listing one alternative
\* twice. The objects require "value", "a", or "a" and "value".
DedupRootSchema ==
    [ Encoding |-> [ additionalProperties |-> FALSE,
                     properties |->
                        [ a     |-> [anyOf |-> << Ref("ValueChannel"), Ref("FieldChannel"),
                                                  Ref("DatumChannel") >>],
                          ab    |-> [anyOf |-> << Ref("FieldChannel"),
                                                  [anyOf |-> << Ref("DatumChannel"),
                                                                Ref("ValueChannel") >>] >>],
                          mark  |-> [oneOf |-> << Ref("ValueChannel"), Ref("FieldChannel") >>],
                          value |-> [anyOf |-> << [type |-> "string"], Ref("DatumChannel"),
                                                  [type |-> "string"] >>] ],
                     type |-> "object" ],
      ValueChannel |->
                   [ additionalProperties |-> FALSE,
                     properties |-> [ value |-> [type |-> "number"] ],
                     required |-> <<"value">>,
                     type |-> "object" ],
      FieldChannel |->
                   [ additionalProperties |-> FALSE,
                     properties |-> [ a |-> [type |-> "string"], type |-> [type |-> "string"] ],
                     required |-> <<"a">>,
                     type |-> "object" ],
      DatumChannel |->
                   [ additionalProperties |-> FALSE,
                     properties |-> [ a |-> [type |-> "string"], value |-> [type |-> "number"] ],
                     required |-> <<"a", "value">>,
                     type |-> "object" ] ]

\* The most keys an instance has.
MaxDedupFields == 2

\* The values an instance may hold under a key.
ChannelValues ==
    { Num(1), Str("s"), PyDict(<<>>),
      PyDict("a" :> Str("s")),
      PyDict("value" :> Num(1)),
      PyDict("shorthand" :> Num(1)),
      PyDict(("a" :> Str("s")) @@ ("shorthand" :> Num(1))),
      PyDict(("a" :> Str("s")) @@ ("type" :> Str("s")) @@ ("shorthand" :> Num(1))),
      PyDict(("value" :> Num(1)) @@ ("shorthand" :> Num(1))),
      PyDict(("a" :> Str("s")) @@ ("value" :> Num(1)) @@ ("shorthand" :> Num(1))) }

EncodingKeys == {"a", "ab", "mark", "value"}

\* The instances validated.
DedupSpecs ==
    { PyDict(m) : m \in UNION { [ks -> ChannelValues] :
                                  ks \in {ks \in SUBSET EncodingKeys :
                                             Cardinality(ks) <= MaxDedupFields} } }

DedupInit ==
    /\ er_spec \in DedupSpecs
    /\ er_op = "new"
    /\ er_res = Ok("None")

\* The grouped errors validate_jsonschema hands to _deduplicate_errors.
grouped_errors(spec) ==
    subset_to_most_specific_json_paths(
        group_errors_by_json_path(
            get_leaves_of_error_tree(
                get_errors_from_spec(spec, Ref("Encoding"), DedupRootSchema))))

\* The errors of one validator in a sequence of errors.
ErrorsOfValidator(errors, validator) ==
    SelectIdx(errors, {i \in DOMAIN errors : errors[i].validator = validator}, 1)

\* The errors _deduplicate_errors hands to _deduplicate_by_message.
errors_for_deduplicate_by_message(validator, errors) ==
    CASE validator = "enum" -> deduplicate_enum_errors(errors)
      [] validator = "additionalProperties" ->
            deduplicate_additional_properties_errors(errors)
      [] OTHER -> errors

\* _deduplicate_errors(grouped_errors); `before` holds, for each json path,
\* the list the last comprehension of the loop body filters.
CallDeduplicateGroupedErrors ==
    /\ er_op = "new"
    /\ \E groups \in {grouped_errors(er_spec)} :
          /\ groups # <<>>
          /\ er_res' = [ input |-> groups,
                         before |-> [g \in DOMAIN groups |->
                                        deduplicate_by_validator(
                                            group_errors_by_validator(groups[g].errors))],
                         output |-> deduplicate_errors(groups) ]
    /\ er_op' = "_deduplicate_errors(grouped_errors)"
    /\ UNCHANGED <<er_spec, notErrVars>>

\* _deduplicate_additional_properties_errors(errors), for the errors of one
\* json path.
CallDeduplicateAdditionalPropertiesErrors ==
    /\ er_op = "new"
    /\ \E groups \in {grouped_errors(er_spec)} :
          \E g \in DOMAIN groups :
             LET errors == ErrorsOfValidator(groups[g].errors, "additionalProperties")
             IN /\ errors # <<>>
                /\ er_res' = [ input |-> errors,
                               output |-> deduplicate_additional_properties_errors(errors) ]
    /\ er_op' = "_deduplicate_additional_properties_errors"
    /\ UNCHANGED <<er_spec, notErrVars>>

\* _deduplicate_by_message(errors), for the errors of one validator at one
\* json path.
CallDeduplicateByMessage ==
    /\ er_op = "new"
    /\ \E groups \in {grouped_errors(er_spec)} :
          \E g \in DOMAIN groups :
             LET by_validator == group_errors_by_validator(groups[g].errors)
             IN \E v \in DOMAIN by_validator :
                   LET errors == errors_for_deduplicate_by_message(
                                     by_validator[v].validator, by_validator[v].errors)
                   IN er_res' = [ input |-> errors,
                                  output |-> deduplicate_by_message(errors) ]
    /\ er_op' = "_deduplicate_by_message"
    /\ UNCHANGED <<er_spec, notErrVars>>

DedupNext ==
    \/ CallDeduplicateGroupedErrors
    \/ CallDeduplicateAdditionalPropertiesErrors
    \/ CallDeduplicateByMessage

DedupSpecInit == DedupInit /\ ResolveIdle /\ ConvIdle /\ ObjIdle /\ DEBUG_MODE = TRUE

SpecDedup == DedupSpecInit /\ [][DedupNext]_vars

\* The error says that the one property required, "value", is missing.
RequiresOnlyValue(err) ==
    err.validator = "required" /\ err.validator_value = <<"value">>

\* `out` is `before` without the errors that require only "value".
OnlyValueRequirementsDropped(before, out) ==
    /\ \A i \in DOMAIN out : ~RequiresOnlyValue(out[i])
    /\ \A i \in DOMAIN before :
          ~RequiresOnlyValue(before[i]) => \E j \in DOMAIN out : out[j] = before[i]
    /\ Len(out) = Cardinality({i \in DOMAIN before : ~RequiresOnlyValue(before[i])})

\* C23: after _deduplicate_errors no retained error has the rule `required`
\* with the list exactly ["value"], and the rule removes no other error: a
\* `required` error naming other or additional properties is kept.
C23_OnlyValueRequirementsDropped ==
    er_op = "_deduplicate_errors(grouped_errors)"
        => \A g \in DOMAIN er_res.output :
              OnlyValueRequirementsDropped(er_res.before[g], er_res.output[g].errors)

\* At one json path an error requiring only "value" was dropped and one
\* whose list names "a" and "value" was kept.
C23_Witness ==
    /\ er_op = "_deduplicate_errors(grouped_errors)"
    /\ \E g \in DOMAIN er_res.output :
          /\ \E i \in DOMAIN er_res.before[g] : RequiresOnlyValue(er_res.before[g][i])
          /\ \E j \in DOMAIN er_res.output[g].errors :
                /\ er_res.output[g].errors[j].validator = "required"
                /\ er_res.output[g].errors[j].validator_value = <<"a", "value">>

\* The errors all have one and the same parent, an anyOf error.
ShareAnyOfParent(errors) ==
    /\ errors[1].parent # NoParent
    /\ errors[1].parent.validator = "anyOf"
    /\ \A i \in DOMAIN errors : errors[i].parent = errors[1].parent

\* `out` holds one error of `errors`, none of which has a shorter message.
IsShortestOf(errors, out) ==
    /\ Len(out) = 1
    /\ \E i \in DOMAIN errors : errors[i] = out[1]
    /\ \A i \in DOMAIN errors : MessageLen(out[1]) <= MessageLen(errors[i])

\* C24: of several additionalProperties errors of a group that all have the
\* same parent, an anyOf error, exactly one is kept, the one with the
\* shortest message; when they do not all share one anyOf parent none is
\* removed.
C24_ShortestOfSharedAnyOf ==
    er_op = "_deduplicate_additional_properties_errors"
        => IF Len(er_res.input) > 1 /\ ShareAnyOfParent(er_res.input)
           THEN IsShortestOf(er_res.input, er_res.output)
           ELSE er_res.output = er_res.input

\* Several errors share an anyOf parent and the first is not the shortest.
C24_Witness ==
    /\ er_op = "_deduplicate_additional_properties_errors"
    /\ Len(er_res.input) > 1
    /\ ShareAnyOfParent(er_res.input)
    /\ MessageLen(er_res.output[1]) < MessageLen(er_res.input[1])

\* Several errors whose parents differ, all kept.
SeveralParentsKept ==
    /\ er_op = "_deduplicate_additional_properties_errors"
    /\ Len(er_res.input) > 1
    /\ ~ShareAnyOfParent(er_res.input)
    /\ er_res.output = er_res.input

\* The place of the first error of `errors` with the message `msg`.
FirstWithMessage(errors, msg) ==
    CHOOSE i \in DOMAIN errors :
        /\ errors[i].message = msg
        /\ \A j \in 1..(i-1) : errors[j].message # msg

\* `out` has one error for each message of `errors`, in the order in which
\* the messages first occur in `errors`.
OnePerMessageInOrder(errors, out) ==
    /\ \A i, j \in DOMAIN out : out[i].message = out[j].message => i = j
    /\ \A i \in DOMAIN errors : \E j \in DOMAIN out : out[j].message = errors[i].message
    /\ \A j \in DOMAIN out : \E i \in DOMAIN errors : errors[i] = out[j]
    /\ \A i, j \in DOMAIN out :
          i < j => FirstWithMessage(errors, out[i].message)
                     < FirstWithMessage(errors, out[j].message)

\* C25: the errors of one rule in a group are de-duplicated by message text:
\* no two errors of the result have the same message, every message of the
\* input is there once, in the order of first occurrence.
C25_OnePerMessageInOrder ==
    er_op = "_deduplicate_by_message"
        => OnePerMessageInOrder(er_res.input, er_res.output)

\* Errors with a repeated message came in, and several messages came out.
C25_Witness ==
    /\ er_op = "_deduplicate_by_message"
    /\ Len(er_res.output) < Len(er_res.input)
    /\ Len(er_res.output) > 1

(***************************************************************************)
(* The registry of _FromDict: hash_schema and __init__ applied to schemas  *)
(* held as Python holds them, as dicts with an insertion order.  A dict is *)
(* [t |-> "object", items |-> the sequence of its [key, val] items].       *)
(***************************************************************************)

JsonObject(items) == [t |-> "object", items |-> items]

Item(key, val) == [key |-> key, val |-> val]

\* cls._schema of a class that has no schema bound.
None == [t |-> "none"]

\* The keys of the schemas below, as sorted() orders them.
SortedKeys == <<"a", "properties", "title", "type">>

\* The schema without the excluded keys at every level.
without_hash_exclude_keys_nested(schema) ==
    IF schema.t = "object"
    THEN LET kept == SelectIdx(schema.items,
                        {i \in DOMAIN schema.items :
                            schema.items[i].key \notin HashExcludeKeys}, 1)
         IN JsonObject([i \in DOMAIN kept |->
                Item(kept[i].key,
                     IF kept[i].val.t = "object"
                     THEN JsonObject(SelectIdx(kept[i].val.items,
                              {j \in DOMAIN kept[i].val.items :
                                  kept[i].val.items[j].key \notin HashExcludeKeys}, 1))
                     ELSE kept[i].val)])
    ELSE schema

\* hash_schema, the comprehension: the items whose key is not in
\* _hash_exclude_keys, when the schema is a dict.
without_hash_exclude_keys(schema) ==
    IF schema.t = "object"
    THEN JsonObject(SelectIdx(schema.items,
            {i \in DOMAIN schema.items : schema.items[i].key \notin HashExcludeKeys}, 1))
    ELSE schema

\* json.dumps(val, sort_keys=True): the text, held as the value with the
\* items of every dict in the order of their keys.
RECURSIVE json_dumps_sorted(_)
json_dumps_sorted(val) ==
    IF val.t = "object"
    THEN LET keys == SelectIdx(SortedKeys,
                        {k \in DOMAIN SortedKeys :
                            \E i \in DOMAIN val.items : val.items[i].key = SortedKeys[k]}, 1)
         IN JsonObject([k \in DOMAIN keys |->
                LET item == val.items[CHOOSE i \in DOMAIN val.items :
                                          val.items[i].key = keys[k]]
                IN Item(item.key, json_dumps_sorted(item.val))])
    ELSE val

\* hash_schema(schema, use_json=True); equal texts have equal hashes, and
\* collisions of hash() are not modelled.
hash_schema_use_json(schema) == json_dumps_sorted(without_hash_exclude_keys(schema))

\* The names of the classes of class_list whose schema is bound and has
\* the hash h, in the order of the list.
classes_with_hash(class_list, h) ==
    LET bound == SelectIdx(class_list,
                    {i \in DOMAIN class_list :
                        /\ class_list[i].schema # None
                        /\ hash_schema_use_json(class_list[i].schema) = h}, 1)
    IN [i \in DOMAIN bound |-> bound[i].name]

\* _FromDict.__init__(class_list): self.class_dict
FromDict_init(class_list) ==
    [h \in {hash_schema_use_json(class_list[i].schema) :
               i \in {i \in DOMAIN class_list : class_list[i].schema # None}}
        |-> classes_with_hash(class_list, h)]

\* The most keys a schema has at its top level.
MaxSchemaKeys == 2

\* The values under each key: a title, a type, and properties that carry a
\* title of their own or list their keys in either order.
SchemaKeyValues ==
    [ title      |-> { Str("s"), Str("t") },
      type       |-> { Str("object"), Str("string") },
      properties |-> { JsonObject(<<>>),
                       JsonObject(<<Item("title", Str("s"))>>),
                       JsonObject(<<Item("title", Str("t"))>>),
                       JsonObject(<<Item("a", Str("s")), Item("title", Str("s"))>>),
                       JsonObject(<<Item("title", Str("s")), Item("a", Str("s"))>>) } ]

\* The sequences of n items with distinct keys.
RECURSIVE ItemLists(_)
ItemLists(n) ==
    IF n = 0 THEN {<<>>}
    ELSE LET shorter == ItemLists(n - 1)
         IN shorter \cup
            { Append(items, Item(key, val)) :
                items \in {l \in shorter : Len(l) = n - 1},
                key \in DOMAIN SchemaKeyValues,
                val \in UNION {SchemaKeyValues[k] : k \in DOMAIN SchemaKeyValues} }

HasDistinctKeys(items) ==
    \A i, j \in DOMAIN items : items[i].key = items[j].key => i = j

BoundSchemas ==
    { JsonObject(items) : items \in
        { l \in ItemLists(MaxSchemaKeys) :
            /\ HasDistinctKeys(l)
            /\ \A i \in DOMAIN l : l[i].val \in SchemaKeyValues[l[i].key] } }

\* The class lists: two classes with a schema or none, and one without.
ClassLists ==
    { << [name |-> "A", schema |-> a], [name |-> "B", schema |-> b],
         [name |-> "C", schema |-> None] >> :
        a \in BoundSchemas \cup {None}, b \in BoundSchemas \cup {None} }

RegInit ==
    /\ cv_x \in ClassLists
    /\ cv_op = "new"
    /\ cv_res = <<>>

\* _FromDict(class_list)
CallFromDictInit ==
    /\ cv_op = "new"
    /\ cv_op' = "_FromDict(class_list)"
    /\ cv_res' = FromDict_init(cv_x)
    /\ UNCHANGED <<cv_x, notConvVars>>

\* _FromDict.hash_schema(schema) for the schema of each class that has one.
CallHashSchema ==
    /\ cv_op = "new"
    /\ \E i \in DOMAIN cv_x : cv_x[i].schema # None
    /\ cv_op' = "hash_schema"
    /\ cv_res' = [i \in {i \in DOMAIN cv_x : cv_x[i].schema # None}
                    |-> hash_schema_use_json(cv_x[i].schema)]
    /\ UNCHANGED <<cv_x, notConvVars>>

RegNext == CallFromDictInit \/ CallHashSchema

RegSpecInit == RegInit /\ ResolveIdle /\ ObjIdle /\ ErrIdle /\ DEBUG_MODE = FALSE

SpecReg == RegSpecInit /\ [][RegNext]_vars

\* The value under a key of a dict, None when the key is absent.
ValueAt(obj, key) ==
    IF \E i \in DOMAIN obj.items : obj.items[i].key = key
    THEN obj.items[CHOOSE i \in DOMAIN obj.items : obj.items[i].key = key].val
    ELSE None

KeysOf(obj) == {obj.items[i].key : i \in DOMAIN obj.items}

\* Two values are equal as Python compares them: dicts by their keys and
\* the values under them, whatever the order of the items.
RECURSIVE EqualValues(_, _)
EqualValues(v, w) ==
    IF v.t = "object" /\ w.t = "object"
    THEN /\ KeysOf(v) = KeysOf(w)
         /\ \A k \in KeysOf(v) : EqualValues(ValueAt(v, k), ValueAt(w, k))
    ELSE v = w

\* Two schemas are equal once the excluded keys are removed at the top level.
EqualButForExcludedKeys(v, w) ==
    /\ KeysOf(v) \ HashExcludeKeys = KeysOf(w) \ HashExcludeKeys
    /\ \A k \in KeysOf(v) \ HashExcludeKeys : EqualValues(ValueAt(v, k), ValueAt(w, k))

\* The classes of a class list that have a schema.
BoundClasses(class_list) == {i \in DOMAIN class_list : class_list[i].schema # None}

\* Some bucket of the registry holds the class.
InRegistry(registry, name) ==
    \E h \in DOMAIN registry : \E i \in DOMAIN registry[h] : registry[h][i] = name

\* One bucket of the registry holds both classes.
InOneBucket(registry, name, other) ==
    \E h \in DOMAIN registry :
        /\ \E i \in DOMAIN registry[h] : registry[h][i] = name
        /\ \E i \in DOMAIN registry[h] : registry[h][i] = other

\* C26: the registry ignores definitions, title, description, $schema and id
\* at the top level of a schema only: two classes are in one bucket exactly
\* when their schemas are equal once those top-level keys are removed,
\* whatever the order of the keys; a nested occurrence of such a key counts;
\* a class with no schema bound is in no bucket, every other class is in one.
C26_BucketsIgnoreTopLevelKeys ==
    cv_op = "_FromDict(class_list)"
        => /\ \A i \in DOMAIN cv_x :
                 InRegistry(cv_res, cv_x[i].name) <=> i \in BoundClasses(cv_x)
           /\ \A i, j \in BoundClasses(cv_x) :
                 InOneBucket(cv_res, cv_x[i].name, cv_x[j].name)
                 <=> EqualButForExcludedKeys(cv_x[i].schema, cv_x[j].schema)

\* Two classes whose schemas differ in their title and in the order of
\* their keys, at the top level and below, are in one bucket.
C26_Witness ==
    /\ cv_op = "_FromDict(class_list)"
    /\ cv_x[1].schema # None /\ cv_x[2].schema # None
    /\ InOneBucket(cv_res, "A", "B")
    /\ "title" \in KeysOf(cv_x[1].schema) /\ "title" \notin KeysOf(cv_x[2].schema)
    /\ \E k \in KeysOf(cv_x[1].schema) :
          /\ ValueAt(cv_x[1].schema, k).t = "object"
          /\ ValueAt(cv_x[1].schema, k) # ValueAt(cv_x[2].schema, k)

\* Two schemas that differ only in a nested title hash differently.
NestedTitleCounts ==
    /\ cv_op = "hash_schema"
    /\ DOMAIN cv_res = {1, 2}
    /\ cv_res[1] # cv_res[2]
    /\ without_hash_exclude_keys_nested(cv_x[1].schema)
         = without_hash_exclude_keys_nested(cv_x[2].schema)

(***************************************************************************)
(* Properties of copy: what the copy shares with the original and whether  *)
(* it equals it.                                                           *)
(***************************************************************************)

\* The fields named in the argument `ignore` of the copies made.
Ignored == {"a"}

\* The field of the copy holds the very value object the original holds.
SameObject(h, x, y, k) == k \in DOMAIN h[y].kwds /\ h[y].kwds[k] = h[x].kwds[k]

\* The field of the copy holds an object of its own, of equal value.
Rebuilt(h, x, y, k) ==
    /\ k \in DOMAIN h[y].kwds
    /\ h[y].kwds[k].t = "ref"
    /\ h[y].kwds[k] # h[x].kwds[k]
    /\ Tree(h, h[y].kwds[k]) = Tree(h, h[x].kwds[k])

\* The fields of x that hold an object, not a number or a string.
ObjectFields(h, x) == {k \in DOMAIN h[x].kwds : h[x].kwds[k].t = "ref"}

\* The fields of x that hold a tuple.
TupleFields(h, x) == {k \in ObjectFields(h, x) : h[h[x].kwds[k].id].t = "tuple"}

\* C27: after copy(deep=True, ignore=S) and copy(deep=False, ignore=S) every
\* top-level field named in S holds in the copy the very object it holds in
\* the original, and with deep=True every other field holding an object is
\* reconstructed.
C27_IgnoredSharedOthersRebuilt ==
    /\ (ob_op \in {"copy(deep=True, ignore=['a'])", "copy(deep=False, ignore=['a'])"}
        /\ ob_res = "ok")
          => \A k \in DOMAIN heap[ob_x].kwds \cap Ignored : SameObject(heap, ob_x, ob_y, k)
    /\ (ob_op = "copy(deep=True, ignore=['a'])" /\ ob_res = "ok")
          => \A k \in ObjectFields(heap, ob_x) \ Ignored : Rebuilt(heap, ob_x, ob_y, k)

\* The same with the fields holding a tuple left out of the second part.
IgnoredSharedOthersButTuplesRebuilt ==
    /\ (ob_op \in {"copy(deep=True, ignore=['a'])", "copy(deep=False, ignore=['a'])"}
        /\ ob_res = "ok")
          => \A k \in DOMAIN heap[ob_x].kwds \cap Ignored : SameObject(heap, ob_x, ob_y, k)
    /\ (ob_op = "copy(deep=True, ignore=['a'])" /\ ob_res = "ok")
          => \A k \in (ObjectFields(heap, ob_x) \ TupleFields(heap, ob_x)) \ Ignored :
                Rebuilt(heap, ob_x, ob_y, k)

\* An ignored field holding an object was carried over by a deep copy.
IgnoredObjectShared ==
    /\ ob_op = "copy(deep=True, ignore=['a'])" /\ ob_res = "ok"
    /\ "a" \in ObjectFields(heap, ob_x)
    /\ SameObject(heap, ob_x, ob_y, "a")

\* The calls of copy.
CopyNames ==
    {"copy(deep=True)", "copy(deep=True, ignore=['a'])",
     "copy(deep=False)", "copy(deep=False, ignore=['a'])",
     "copy(deep=['a'])", "copy(deep=['a'], ignore=['a'])"}

\* C30: whatever the arguments deep and ignore, x.copy(deep, ignore) returns
\* an object equal to x (same class, positional value and named fields) and
\* leaves x as it was.
C30_CopyEqualsOriginal ==
    ob_op \in CopyNames
        => /\ ob_res = "ok"
           /\ Tree(heap, Ptr(ob_y)) = Tree(heap, Ptr(ob_x))
           /\ Tree(heap, Ptr(ob_x)) = ob_snap

\* The same for the copies of an object without a positional value that do
\* not name a field the object has not set.
CopyEqualsOriginalWhenFieldsSet ==
    (/\ ob_op \in CopyNames
     /\ heap[ob_x].args = <<>>
     /\ ob_op \in {"copy(deep=['a'])", "copy(deep=['a'], ignore=['a'])"}
           => "a" \in DOMAIN heap[ob_x].kwds)
        => /\ ob_res = "ok"
           /\ Tree(heap, Ptr(ob_y)) = Tree(heap, Ptr(ob_x))
           /\ Tree(heap, Ptr(ob_x)) = ob_snap

\* copy(deep=['a']) of an object that has not set `a` stored Undefined
\* under `a` in the copy.
UnsetNameStored ==
    /\ ob_op = "copy(deep=['a'])" /\ ob_res = "ok"
    /\ heap[ob_x].args = <<>>
    /\ "a" \notin DOMAIN heap[ob_x].kwds
    /\ "a" \in DOMAIN heap[ob_y].kwds
    /\ heap[ob_y].kwds["a"] = Undefined

(***************************************************************************)
(* Properties of to_dict with the argument `ignore`.                       *)
(***************************************************************************)

\* The fields of x that to_dict(ignore=S) puts out: those not named in S,
\* not named shorthand and not Undefined.
FieldsPutOut(kwds, ignore) ==
    {k \in DOMAIN kwds : k \notin ignore /\ k # "shorthand" /\ kwds[k] # Undefined}

\* `result` has the fields of kwds that are put out, each in the canonical
\* form its value has on its own.
HasCanonicalFields(result, kwds, ignore) ==
    /\ DOMAIN result.kv = FieldsPutOut(kwds, ignore)
    /\ \A k \in FieldsPutOut(kwds, ignore) :
          Ok(result.kv[k]) = todict(ExpandMark(kwds)[k])

\* C28: to_dict(ignore=S) drops the fields named in S from the object it is
\* called on only: the value of every other field is canonicalised as it is
\* on its own, so a field of a nested object named in S is still there.
C28_IgnoreNotPassedToChildren ==
    (/\ cv_op = "to_dict(validate=False, ignore=S)"
     /\ cv_x.args = <<>>
     /\ cv_res.outcome.ok)
        => HasCanonicalFields(cv_res.outcome.val, cv_x.kwds, cv_res.ignore)

\* A field named in S was put out as a field of a nested object.
C28_Witness ==
    /\ cv_op = "to_dict(validate=False, ignore=S)"
    /\ cv_x.args = <<>>
    /\ cv_res.outcome.ok
    /\ \E k \in DOMAIN cv_res.outcome.val.kv :
          /\ cv_x.kwds[k].t = "obj"
          /\ cv_res.outcome.val.kv[k].t = "dict"
          /\ (DOMAIN cv_res.outcome.val.kv[k].kv) \cap cv_res.ignore # {}

(***************************************************************************)
(* Property setters: with_property_setters puts one _PropertySetter on the *)
(* class for each property of its schema; reading the property on an       *)
(* instance runs __get__, which notes the instance on that one descriptor  *)
(* and returns the descriptor.  The caller holds two objects of one class, *)
(* x (A) and a second one (B).                                             *)
(***************************************************************************)

\* The class decorated with with_property_setters.
SetterClass == "Top"

\* with_property_setters: the properties that get a setter, those of
\* cls.resolve_references().
with_property_setters(cls) ==
    DOMAIN SchemaGet(resolve_references(ClassSchema(cls), RootSchema), "properties")

\* The objects A and B are constructed as.
SetterObjects ==
    {Obj(SetterClass, <<>>, <<>>)}
    \cup {Obj(SetterClass, <<>>, f :> v) : f \in {"a", "value"}, v \in {Str("s"), Num(1)}}

\* The heap with A, then B, allocated.
HeapOfPair(a, b) == Alloc(Alloc(<<>>, a).h, b)

SetterInit ==
    /\ \E a \in SetterObjects, b \in SetterObjects :
          /\ heap = HeapOfPair(a, b).h
          /\ ob_x = Alloc(<<>>, a).s.id
          /\ ps_b = HeapOfPair(a, b).s.id
          /\ ob_snap = a
    /\ ob_y = 0 /\ ob_copy = "none" /\ ob_op = "new" /\ ob_res = "ok" /\ ob_writes = 0
    /\ dbg_stack = <<>> /\ dbg_exit = NoExit
    /\ ps_obj = [prop \in with_property_setters(SetterClass) |-> 0]
    /\ ps_held = "none"
    /\ DEBUG_MODE = TRUE

\* _PropertySetter.__get__(self, obj, cls): `self.obj = obj`
PropertySetter_get(descriptors, prop, obj) == [descriptors EXCEPT ![prop] = obj]

\* setter = A.prop
ObtainSetter ==
    /\ ps_held = "none"
    /\ \E prop \in with_property_setters(SetterClass) :
          /\ ps_obj' = PropertySetter_get(ps_obj, prop, ob_x)
          /\ ps_held' = prop
    /\ ob_op' = "setter = A.prop"
    /\ UNCHANGED <<heap, ob_x, ob_y, ob_copy, ob_snap, ob_res, ob_writes, dbg_stack, dbg_exit,
                   ps_b, DEBUG_MODE, convVars, resolveVars, errVars>>

\* B.prop, read by other code while the caller holds the setter.
ReadPropertyOfB ==
    /\ ps_held # "none" /\ ob_y = 0
    /\ \E prop \in with_property_setters(SetterClass) :
          ps_obj' = PropertySetter_get(ps_obj, prop, ps_b)
    /\ ob_op' = "B.prop"
    /\ UNCHANGED <<heap, ob_x, ob_y, ob_copy, ob_snap, ob_res, ob_writes, dbg_stack, dbg_exit,
                   ps_b, ps_held, DEBUG_MODE, convVars, resolveVars, errVars>>

\* y = setter(value): `obj = self.obj.copy(); obj[self.prop] = args[0]`
CallHeldSetter ==
    /\ ps_held # "none" /\ ob_y = 0
    /\ \E val \in WriteValues :
          /\ CopyResult(copy(heap, ps_obj[ps_held], Deep(TRUE, <<>>), {}, DEBUG_MODE),
                        setitem(copy(heap, ps_obj[ps_held], Deep(TRUE, <<>>), {}, DEBUG_MODE).h,
                                copy(heap, ps_obj[ps_held], Deep(TRUE, <<>>), {}, DEBUG_MODE).out.id,
                                ps_held, val),
                        "setter(value)")
    /\ UNCHANGED <<ps_b, ps_obj, ps_held>>

SetterNext == ObtainSetter \/ ReadPropertyOfB \/ CallHeldSetter

SetterSpecInit == SetterInit /\ ConvIdle /\ ResolveIdle /\ ErrIdle

SpecSetter == SetterSpecInit /\ [][SetterNext]_vars

\* obj with the field prop set to val.
WithField(obj, prop, val) == [obj EXCEPT !.kwds = (prop :> val) @@ @]

\* C29: the call of a setter obtained from A returns a copy of A with the
\* property set to the value and leaves A unchanged, whatever was done
\* between obtaining the setter and calling it, the same property being
\* read on another object B of the class included.
C29_SetterActsOnItsSource ==
    ob_op = "setter(value)"
        => /\ ob_res = "ok"
           /\ \E val \in WriteValues :
                 Tree(heap, Ptr(ob_y)) = WithField(ob_snap, ps_held, val)
           /\ Tree(heap, Ptr(ob_x)) = ob_snap

\* The call returns a copy of the object the property was last read on,
\* with the property set, and changes neither A nor B.
SetterActsOnLastRead ==
    ob_op = "setter(value)"
        => /\ ob_res = "ok"
           /\ \E val \in WriteValues :
                 Tree(heap, Ptr(ob_y)) = WithField(Tree(heap, Ptr(ps_obj[ps_held])), ps_held, val)
           /\ Tree(heap, Ptr(ob_x)) = ob_snap

\* The setter obtained from A returned a copy of B, B differing from A.
SetterActedOnB ==
    /\ ob_op = "setter(value)" /\ ob_res = "ok"
    /\ ps_obj[ps_held] = ps_b
    /\ Tree(heap, Ptr(ps_b)) # Tree(heap, Ptr(ob_x))
    /\ \E val \in WriteValues :
          Tree(heap, Ptr(ob_y)) = WithField(Tree(heap, Ptr(ps_b)), ps_held, val)
====
